---- MODULE Spec2Model ----
(***************************************************************************)
(* Illustration generation and placement engine of reader3                 *)
(* (illustration_generator.py): scene extraction, image synthesis, the     *)
(* per-book metadata document (generated_images.json) and the orchestrator *)
(* generate_illustrations_for_chapter.                                     *)
(***************************************************************************)
EXTENDS Integers, Sequences, FiniteSets, TLC

VARIABLES
    metadata,   \* generated_images.json: chapter key -> record (or no entry)
    files,      \* image files present under {book_id}/images
    run,        \* per caller: position and locals of generate_illustrations_for_chapter
    ncalls,     \* number of generate calls started so far
    reader      \* the reading side: arguments and result of its last operation

vars == <<metadata, files, run, ncalls, reader>>

(***************************************************************************)
(* Bounds of the model                                                     *)
(***************************************************************************)
MaxImages == 2      \* largest num_images a call requests
MaxCalls == 2       \* generate calls in one behaviour
MaxTextLen == 1     \* longest chapter text, in characters

(***************************************************************************)
(* Program constants                                                       *)
(***************************************************************************)
MinImageBytes == 1000
SchemaVersion == 2
DefaultPercentStep == 33

Chapters == {0, 1}
Titles == {<<>>, <<"a", "!">>}
\* The title the server passes for a chapter (server.py, current_chapter.title):
\* chapter 0 is untitled, chapter 1 is titled.
ChapterTitle(chapter_index) == IF chapter_index = 0 THEN <<>> ELSE <<"a", "!">>
Procs == {1, 2}
SeqProcs == {1}

\* Characters of a chapter text: a blank and a letter.
Chars == {" ", "a"}
Texts == UNION {[1..n -> Chars] : n \in 0..MaxTextLen}
NumImages == 0..MaxImages
SceneNumbers == 1..MaxImages

\* JSON null / Python None for an anchor, and a key that the object lacks.
Null == "null"
NoKey == 0 - 1

Range(s) == {s[i] : i \in 1..Len(s)}
Prefix(s, n) == SubSeq(s, 1, IF n < Len(s) THEN n ELSE Len(s))

(***************************************************************************)
(* str.strip() of the chapter text and the emptiness test of line 113      *)
(***************************************************************************)
RECURSIVE LStrip(_)
LStrip(s) == IF s # <<>> /\ Head(s) = " " THEN LStrip(Tail(s)) ELSE s

RECURSIVE RStrip(_)
RStrip(s) ==
    IF s # <<>> /\ s[Len(s)] = " " THEN RStrip(SubSeq(s, 1, Len(s) - 1)) ELSE s

Strip(s) == RStrip(LStrip(s))

\* Faulty variant: the text is tested without stripping it.
IsEmptyText(chapter_text) == chapter_text = <<>>

IsBlankText(chapter_text) == chapter_text = <<>> \/ Len(Strip(chapter_text)) = 0

(***************************************************************************)
(* Exception messages are sequences of phrases; "x in str(e)" is           *)
(* membership of the phrase, string concatenation is \o.                   *)
(***************************************************************************)
Contains(msg, phrase) == phrase \in Range(msg)

NoException == <<>>
NoApiKeyMsg == <<"GEMINI_API_KEY environment variable not set">>
ApiErrorMsg == <<"API Error">>
NoImageDataPhrase == "No image data found in response"
SafetyPhrase == "blocked by safety filters"
FailedScenePhrase == "Failed to generate image for scene"
KeyErrorMsg == <<"'scene_number'">>

(***************************************************************************)
(* Scene descriptors.  A reply scene may lack keys: scene_number and       *)
(* location_percent are NoKey, insert_after_text is NoText, when absent.   *)
(***************************************************************************)
NoText == "<no key>"

Scene(n, summary, anchor, percent) ==
    [scene_number |-> n, summary |-> summary,
     insert_after_text |-> anchor, location_percent |-> percent]

\* Scenes the text service may send back.
ReplyScenes ==
    {Scene(n, "llm", "a", 50) : n \in SceneNumbers}
    \cup {Scene(1, "llm", NoText, NoKey), Scene(NoKey, "llm", NoText, NoKey)}

SceneLists(maxLen) == UNION {[1..n -> ReplyScenes] : n \in 0..maxLen}

\* Outcomes of the text-generation step: the client cannot be created, the
\* request raises, the reply is not JSON, or it is JSON holding a scene list.
TextReplies ==
    {[kind |-> k, scenes |-> <<>>] : k \in {"client_error", "raise", "malformed"}}
    \cup {[kind |-> "json", scenes |-> s] : s \in SceneLists(MaxImages + 1)}

\* int(100 * (idx + 0.5) / num_scenes), lines 229 and 254
EvenPercent(idx, num_scenes) == (100 * (2 * idx + 1)) \div (2 * num_scenes)

\* lines 214-220: fill in the keys a reply scene lacks
FillMissingKeys(scene) ==
    [scene EXCEPT
        !.insert_after_text = IF @ = NoText THEN Null ELSE @,
        !.location_percent =
            IF @ = NoKey
            THEN DefaultPercentStep *
                 ((IF scene.scene_number = NoKey THEN 1 ELSE scene.scene_number) - 1)
            ELSE @]

\* lines 225-230: the placeholder appended at position idx (0-based)
Placeholder(idx, num_scenes) ==
    Scene(idx + 1, "A scene from the chapter", Null, EvenPercent(idx, num_scenes))

\* lines 223-230
RECURSIVE PadScenes(_, _)
PadScenes(scenes, num_scenes) ==
    IF Len(scenes) < num_scenes
    THEN PadScenes(Append(scenes, Placeholder(Len(scenes), num_scenes)), num_scenes)
    ELSE scenes

\* lines 248-256
FallbackScenes(num_scenes) ==
    [i \in 1..num_scenes |->
        Scene(i, "An important scene from the chapter", Null,
              EvenPercent(i - 1, num_scenes))]

\* Faulty variant: the reply is truncated but never padded.
ParsedScenesNoPad(reply_scenes, num_scenes) ==
    Prefix([i \in 1..Len(reply_scenes) |-> FillMissingKeys(reply_scenes[i])],
           num_scenes)

\* lines 210-239: the scenes returned for a reply that parsed
ParsedScenes(reply_scenes, num_scenes) ==
    Prefix(PadScenes([i \in 1..Len(reply_scenes) |-> FillMissingKeys(reply_scenes[i])],
                     num_scenes),
           num_scenes)

SceneResult(exc, scenes, clients, requests) ==
    [exc |-> exc, scenes |-> scenes, clients |-> clients, requests |-> requests]

\* summarize_scenes: exc is the exception raised (NoException when it returns),
\* clients the number of get_gemini_client calls, requests the number of
\* generate_content requests issued.
summarize_scenes(chapter_text, num_scenes, reply) ==
    IF IsBlankText(chapter_text) THEN SceneResult(NoException, <<>>, 0, 0)
    ELSE IF reply.kind = "client_error" THEN SceneResult(NoApiKeyMsg, <<>>, 1, 0)
    ELSE IF reply.kind = "raise" THEN SceneResult(ApiErrorMsg, <<>>, 1, 1)
    ELSE IF reply.kind = "malformed"
         THEN SceneResult(NoException, FallbackScenes(num_scenes), 1, 1)
    ELSE SceneResult(NoException, ParsedScenes(reply.scenes, num_scenes), 1, 1)

(***************************************************************************)
(* Image synthesis and persistence                                         *)
(***************************************************************************)
ImageSizes == {MinImageBytes - 1, MinImageBytes}

\* Outcomes of the image-generation step.  An image payload has a byte
\* length and either starts with the PNG signature or does not; b64 says that
\* it is the base64 text of bytes that start with the signature.
ImageReplies ==
    {[kind |-> k, size |-> 0, png |-> FALSE, b64 |-> FALSE] : k \in {"raise", "no_parts", "text_only"}}
    \cup {[kind |-> "image", size |-> n, png |-> TRUE, b64 |-> FALSE] : n \in ImageSizes}
    \cup {[kind |-> "image", size |-> MinImageBytes, png |-> FALSE, b64 |-> FALSE]}

TooSmall(size) == size < MinImageBytes

ImageResult(exc, clients, requests) ==
    [exc |-> exc, clients |-> clients, requests |-> requests]

\* generate_image: the exception it raises (NoException when it returns bytes)
generate_image(reply) ==
    IF reply.kind = "client_error" THEN ImageResult(NoApiKeyMsg, 1, 0)
    ELSE IF reply.kind = "raise" THEN ImageResult(ApiErrorMsg, 1, 1)
    ELSE IF reply.kind = "no_parts"
         THEN ImageResult(<<NoImageDataPhrase, SafetyPhrase>>, 1, 1)
    ELSE IF reply.kind = "text_only" THEN ImageResult(<<NoImageDataPhrase>>, 1, 1)
    ELSE IF TooSmall(reply.size) THEN ImageResult(<<"Image too small">>, 1, 1)
    ELSE ImageResult(NoException, 1, 1)

(***************************************************************************)
(* sanitize_chapter_title over sequences of characters                     *)
(***************************************************************************)
DefaultMaxTitleLength == 50
PunctuationChars == {".", ",", ":", ";", "!", "?", "'", "\""}
KeptChars == {" ", "-", "_"}
AlnumChars == {"a", "b", "c", "e", "h", "p", "r", "t", "T", "1"}
ChapterWord == <<"c", "h", "a", "p", "t", "e", "r">>

\* lines 55-64: keep, skip or replace each character
RECURSIVE SafeChars(_)
SafeChars(title) ==
    IF title = <<>> THEN <<>>
    ELSE LET c == Head(title) IN
         IF c \in AlnumChars \cup KeptChars THEN <<c>> \o SafeChars(Tail(title))
         ELSE IF c \in PunctuationChars THEN SafeChars(Tail(title))
         ELSE <<"_">> \o SafeChars(Tail(title))

\* Faulty variant: runs of blanks and underscores are left as they are.
KeepRuns(s) == s

\* line 71: re.sub(r'[\s_]+', '_', s)
RECURSIVE CollapseRuns(_)
CollapseRuns(s) ==
    IF s = <<>> THEN <<>>
    ELSE IF Head(s) \in {" ", "_"}
         THEN IF Len(s) > 1 /\ s[2] \in {" ", "_"}
              THEN CollapseRuns(Tail(s))
              ELSE <<"_">> \o CollapseRuns(Tail(s))
         ELSE <<Head(s)>> \o CollapseRuns(Tail(s))

RECURSIVE LStripUnderscore(_)
LStripUnderscore(s) ==
    IF s # <<>> /\ Head(s) = "_" THEN LStripUnderscore(Tail(s)) ELSE s

RECURSIVE RStripUnderscore(_)
RStripUnderscore(s) ==
    IF s # <<>> /\ s[Len(s)] = "_"
    THEN RStripUnderscore(SubSeq(s, 1, Len(s) - 1))
    ELSE s

sanitize_chapter_title(title, max_length) ==
    LET stripped == RStripUnderscore(LStripUnderscore(CollapseRuns(SafeChars(title))))
        cut == IF Len(stripped) > max_length
               THEN RStripUnderscore(SubSeq(stripped, 1, max_length))
               ELSE stripped
    IN IF cut = <<>> THEN ChapterWord ELSE cut

\* The part of the file name that comes from chapter_title (lines 451-455):
\* none for an empty title, else the sanitized title.
TitlePart(chapter_title) ==
    IF chapter_title = <<>> THEN <<>>
    ELSE sanitize_chapter_title(chapter_title, DefaultMaxTitleLength)

ImagePath(chapter_index, chapter_title, scene_number) ==
    [ch |-> chapter_index, title |-> TitlePart(chapter_title), sn |-> scene_number]

AllPaths ==
    {ImagePath(c, t, n) : c \in Chapters, t \in Titles, n \in SceneNumbers}

\* save_image: the exception it raises for a payload (lines 425-444); a
\* payload without the signature passes when its base64 decoding has it
SaveImageError(payload) ==
    IF TooSmall(payload.size) THEN <<"Invalid image data">>
    ELSE IF ~payload.png /\ ~payload.b64 THEN <<"Image data is not a valid PNG">>
    ELSE NoException

\* base64.b64decode of an unpadded text of that many characters
Base64DecodedSize(size) == (size \div 4) * 3

\* lines 431-465: the bytes that save_image writes for an accepted payload
SavedBytes(payload) ==
    IF payload.png THEN [size |-> payload.size, png |-> TRUE]
    ELSE [size |-> Base64DecodedSize(payload.size), png |-> TRUE]

(***************************************************************************)
(* Cache store: the metadata document maps the chapter keys it holds to    *)
(* records.  A record is a legacy list of paths or a dict envelope; a key  *)
(* the envelope lacks is has_images = FALSE, status = NoStatus, an empty   *)
(* scene_locations / anchor_texts / error, current_image_count = NoKey.    *)
(***************************************************************************)
NoStatus == "<no key>"

Record(kind, has_images, images, status, locations, anchors, error, count, version) ==
    [kind |-> kind, has_images |-> has_images, images |-> images, status |-> status,
     scene_locations |-> locations, anchor_texts |-> anchors, error |-> error,
     current_image_count |-> count, schema_version |-> version]

LegacyList(images) ==
    Record("list", TRUE, images, NoStatus, <<>>, <<>>, <<>>, NoKey, 0)

\* str(chapter_index)
ChapterKey(chapter_index) == ToString(chapter_index)

EmptyDocument == [k \in {} |-> LegacyList(<<>>)]

\* lines 494-498
ExistingPaths(image_paths, disk) == SelectSeq(image_paths, LAMBDA path : path \in disk)

CacheResult(none, paths) == [none |-> none, paths |-> paths]
CacheNone == CacheResult(TRUE, <<>>)

\* Faulty variant: every status but error counts as finished.
StatusIsNotError(chapter_data) == chapter_data.status # "error"

\* line 503: the envelope's status test
StatusIsCompleted(chapter_data) == chapter_data.status = "completed"

\* Faulty variant: one existing file is enough.
SomeExist(existing_paths, image_paths) == existing_paths # <<>>

\* line 503 / 505: every listed file exists
AllExist(existing_paths, image_paths) == Len(existing_paths) = Len(image_paths)

\* Faulty variant: only a dict with an images key is accepted.
HasImagesKey(chapter_data) == chapter_data.kind = "dict" /\ chapter_data.has_images

\* lines 485-491: the record is a list, or a dict with an images key
HasImageList(chapter_data) ==
    chapter_data.kind = "list" \/ (chapter_data.kind = "dict" /\ chapter_data.has_images)

\* Faulty variant: the status of the record is not looked at.
CacheDecisionAnyStatus(chapter_data, existing_paths) ==
    IF existing_paths # <<>> /\ Len(existing_paths) = Len(chapter_data.images)
    THEN CacheResult(FALSE, existing_paths)
    ELSE CacheNone

\* lines 500-509: the value returned once the files have been looked for
CacheDecision(chapter_data, existing_paths) ==
    LET image_paths == chapter_data.images IN
    IF existing_paths # <<>> /\ chapter_data.kind = "dict"
    THEN IF StatusIsCompleted(chapter_data) /\ AllExist(existing_paths, image_paths)
         THEN CacheResult(FALSE, existing_paths)
         ELSE CacheNone
    ELSE IF existing_paths # <<>> /\ AllExist(existing_paths, image_paths)
         THEN CacheResult(FALSE, existing_paths)
         ELSE CacheNone

\* get_cached_images (lines 468-512)
get_cached_images(doc, disk, chapter_index) ==
    LET chapter_key == ChapterKey(chapter_index) IN
    IF chapter_key \notin DOMAIN doc THEN CacheNone
    ELSE LET chapter_data == doc[chapter_key] IN
         IF ~HasImageList(chapter_data) THEN CacheNone
         ELSE CacheDecision(chapter_data, ExistingPaths(chapter_data.images, disk))

\* Python truth value of the value get_cached_images returned
Truthy(cached) == ~cached.none /\ cached.paths # <<>>

\* lines 551-563: the envelope built for one write; empty lists, an empty
\* error and a count of None (NoKey) leave their key out
ChapterData(image_paths, scene_locations, anchor_texts, status, error, count) ==
    Record("dict", TRUE, image_paths, status, scene_locations, anchor_texts,
           error, count, SchemaVersion)

\* Faulty variant: the document is rebuilt from the written key alone.
PutKeyFresh(doc, chapter_key, chapter_data) == [k \in {chapter_key} |-> chapter_data]

\* Faulty variant: the write is given up when the chapter's record in the file
\* is no longer the one that was loaded.
PutKeyIfUnchanged(doc, chapter_key, chapter_data) ==
    IF /\ chapter_key \in DOMAIN metadata
       /\ chapter_key \notin DOMAIN doc \/ doc[chapter_key] # metadata[chapter_key]
    THEN metadata
    ELSE [k \in DOMAIN doc \cup {chapter_key} |->
             IF k = chapter_key THEN chapter_data ELSE doc[k]]

\* lines 564-568: one key replaced in the loaded document
PutKey(doc, chapter_key, chapter_data) ==
    [k \in DOMAIN doc \cup {chapter_key} |->
        IF k = chapter_key THEN chapter_data ELSE doc[k]]

\* save_image_metadata (lines 515-568): the document after the write
save_image_metadata(doc, chapter_index, image_paths, scene_locations, anchor_texts, status, error, count) ==
    PutKey(doc, ChapterKey(chapter_index),
           ChapterData(image_paths, scene_locations, anchor_texts, status, error, count))

\* line 637: del metadata[chapter_key]
RemoveKey(doc, chapter_key) == [k \in DOMAIN doc \ {chapter_key} |-> doc[k]]

\* Faulty variant: a legacy list is not recognised.
OldPathsEnvelopeOnly(chapter_data) ==
    IF chapter_data.kind = "dict" /\ chapter_data.has_images THEN chapter_data.images
    ELSE <<>>

\* lines 621-627: the paths an old record references
OldPaths(chapter_data) ==
    IF chapter_data.kind = "list" THEN chapter_data.images
    ELSE IF chapter_data.kind = "dict" /\ chapter_data.has_images THEN chapter_data.images
    ELSE <<>>

(***************************************************************************)
(* Double-precision arithmetic of the percentage fallback,                 *)
(* int((fallback_percent / 100) * len(paragraphs)).  A double is a         *)
(* sequence of bits, most significant first, with the number of those bits *)
(* that lie behind the binary point; both operations round to nearest,     *)
(* ties to even, at MantissaBits significant bits.                         *)
(***************************************************************************)
MantissaBits == 53

Float(bits, frac) == [bits |-> bits, frac |-> frac]

\* The doubling steps before the expansion of r / 100 shows its first 1.
RECURSIVE LeadingZeros(_)
LeadingZeros(r) == IF 2 * r >= 100 THEN 0 ELSE 1 + LeadingZeros(2 * r)

RECURSIVE SkipZeros(_)
SkipZeros(r) == IF 2 * r >= 100 THEN r ELSE SkipZeros(2 * r)

\* 2^k mod 100, for k up to 56
Pow2Mod100(k) ==
    IF k <= 26 THEN (2 ^ k) % 100
    ELSE (((2 ^ 26) % 100) * ((2 ^ (k - 26)) % 100)) % 100

\* The remainder of the long division of r by 100 after n quotient bits.
RemainderAfter(r, n) == (r * Pow2Mod100(n)) % 100

\* The next n bits of the binary expansion of r / 100, by long division.
QuotientBits(r, n) ==
    [k \in 1..n |-> IF 2 * RemainderAfter(r, k - 1) >= 100 THEN 1 ELSE 0]

\* bits + 1
Increment(bits) ==
    LET zeros == {j \in 1..Len(bits) : bits[j] = 0} IN
    IF zeros = {} THEN <<1>> \o [j \in 1..Len(bits) |-> 0]
    ELSE LET last == CHOOSE j \in zeros : \A k \in zeros : k <= j
         IN [j \in 1..Len(bits) |->
                IF j < last THEN bits[j] ELSE IF j = last THEN 1 ELSE 0]

StripZeros(bits) ==
    LET ones == {j \in 1..Len(bits) : bits[j] = 1} IN
    IF ones = {} THEN <<>>
    ELSE SubSeq(bits, CHOOSE j \in ones : \A k \in ones : j <= k, Len(bits))

\* fallback_percent / 100 as a double, for a percentage in 0..100
DivideBy100(percent) ==
    IF percent = 0 THEN Float(<<>>, 0)
    ELSE IF percent = 100 THEN Float(<<1>>, 0)
    ELSE LET start == SkipZeros(percent)
             kept == QuotientBits(start, MantissaBits)
             rest == RemainderAfter(start, MantissaBits)
             up == 2 * rest > 100 \/ (2 * rest = 100 /\ kept[MantissaBits] = 1)
         IN Float(IF up THEN Increment(kept) ELSE kept,
                  LeadingZeros(percent) + MantissaBits)

\* The number whose bits are the first n of bits.
RECURSIVE BitsValue(_, _)
BitsValue(bits, n) == IF n = 0 THEN 0 ELSE 2 * BitsValue(bits, n - 1) + bits[n]

FromBits(bits) == BitsValue(bits, Len(bits))

\* The product is formed on limbs of LimbBits bits, most significant first.
LimbBits == 12 + 1
Limb == 2 ^ LimbBits

\* The carry out of the lowest k limbs of limbs * n.
RECURSIVE LimbCarry(_, _, _)
LimbCarry(limbs, n, k) ==
    IF k = 0 THEN 0
    ELSE (limbs[Len(limbs) - k + 1] * n + LimbCarry(limbs, n, k - 1)) \div Limb

\* limbs * n, with the last carry as one more limb in front
TimesLimbs(limbs, n) ==
    <<LimbCarry(limbs, n, Len(limbs))>> \o
    [j \in 1..Len(limbs) |->
        (limbs[j] * n + LimbCarry(limbs, n, Len(limbs) - j)) % Limb]

\* bits * n, exactly, for a natural number n below 2^17
TimesSmall(bits, n) ==
    LET count == (Len(bits) + LimbBits - 1) \div LimbBits
        pad == count * LimbBits - Len(bits)
        padded == [j \in 1..pad |-> 0] \o bits
        limbs == [k \in 1..count |->
                    FromBits(SubSeq(padded, LimbBits * (k - 1) + 1, LimbBits * k))]
        product == TimesLimbs(limbs, n)
    IN [j \in 1..(LimbBits * Len(product)) |->
           (product[((j - 1) \div LimbBits) + 1]
               \div (2 ^ (LimbBits - 1 - ((j - 1) % LimbBits)))) % 2]

\* Round an exact value to MantissaBits significant bits.
RoundToDouble(x) ==
    LET bits == StripZeros(x.bits)
        extra == Len(bits) - MantissaBits
    IN IF extra <= 0 THEN Float(bits, x.frac)
       ELSE LET kept == SubSeq(bits, 1, MantissaBits)
                dropped == SubSeq(bits, MantissaBits + 1, Len(bits))
                tail == SubSeq(dropped, 2, Len(dropped))
                more == \E j \in 1..Len(tail) : tail[j] = 1
                up == dropped[1] = 1 /\ (more \/ kept[MantissaBits] = 1)
            IN Float(IF up THEN Increment(kept) ELSE kept, x.frac - extra)

\* x * n as a double, for a natural number n
TimesInt(x, n) == RoundToDouble(Float(TimesSmall(x.bits, n), x.frac))

\* int(x): the integer part of a non-negative double below 2^31
IntPart(x) ==
    IF Len(x.bits) <= x.frac THEN 0
    ELSE FromBits(SubSeq(x.bits, 1, Len(x.bits) - x.frac))


\* lines 774-775, 782-783, 851-852: min(int((percent / 100) * L), L - 1)
FallbackIndex(fallback_percent, num_paragraphs) ==
    LET para_idx == IntPart(TimesInt(DivideBy100(fallback_percent), num_paragraphs))
    IN IF para_idx < num_paragraphs - 1 THEN para_idx ELSE num_paragraphs - 1

(***************************************************************************)
(* Orchestrator: generate_illustrations_for_chapter, one action per step   *)
(* between two accesses of the book directory or the external services.    *)
(***************************************************************************)
\* The local variable metadata of a file access in progress: nothing loaded
\* yet, or the document as it was read (lines 541-547 and 613-616).
NotLoaded == [none |-> TRUE, doc |-> EmptyDocument]
Loaded(doc) == [none |-> FALSE, doc |-> doc]

IdleRun ==
    [pc |-> "idle", chapter_index |-> 0, chapter_text |-> <<>>, chapter_title |-> <<>>,
     loaded |-> NotLoaded,
     force_arg |-> FALSE, force_regenerate |-> FALSE, num_images |-> 0,
     scenes |-> <<>>, i |-> 0, image_paths |-> <<>>, scene_locations |-> <<>>,
     anchor_texts |-> <<>>, old_paths |-> <<>>, exc |-> NoException, result |-> <<>>,
     clients |-> 0, text_requests |-> 0, image_requests |-> 0,
     writes |-> <<>>, repeat |-> FALSE, prev_result |-> <<>>]

Ended == {"idle", "returned", "raised", "killed"}
Requests(r) == r.text_requests + r.image_requests
InFlight(p) == run[p].pc \notin Ended

\* Faulty variant: the count comparison is off by one.
IsCacheHitOffByOne(cached, num_images) ==
    Truthy(cached) /\ Len(cached.paths) = num_images + 1

\* line 603
IsCacheHit(cached, num_images) == Truthy(cached) /\ Len(cached.paths) = num_images

\* Faulty variant: any list of another length counts, also that of a miss.
IsCountMismatchAnyRecord(cached, num_images) ==
    Len(cached.paths) # num_images

\* line 606
IsCountMismatch(cached, num_images) ==
    Truthy(cached) /\ Len(cached.paths) # num_images

\* A record handed to save_image_metadata by the call, with the number of
\* external requests made before the write.
Written(chapter_data, requests) == [record |-> chapter_data, requests |-> requests]

\* The call starts a run with the same arguments as the non-forced call of
\* this caller that has just returned.
SameArguments(r, ch, text, title, force, n) ==
    /\ r.pc = "returned"
    /\ ~r.force_arg /\ ~force
    /\ r.chapter_index = ch /\ r.chapter_text = text
    /\ r.chapter_title = title /\ r.num_images = n

\* lines 588-608: entry and cache check
Call(p, ch, text, title, force, n) ==
    /\ ~InFlight(p)
    /\ ncalls < MaxCalls
    /\ LET cached == IF force THEN CacheNone
                     ELSE get_cached_images(metadata, files, ch)
           hit == ~force /\ IsCacheHit(cached, n)
           implicit == ~force /\ ~hit /\ IsCountMismatch(cached, n)
       IN run' = [run EXCEPT ![p] =
                    [IdleRun EXCEPT
                        !.pc = IF hit THEN "returned"
                               ELSE IF force \/ implicit THEN "cleanup"
                               ELSE "mark_generating",
                        !.chapter_index = ch, !.chapter_text = text,
                        !.chapter_title = title, !.num_images = n,
                        !.force_arg = force,
                        !.force_regenerate = force \/ implicit,
                        !.result = IF hit THEN cached.paths ELSE <<>>,
                        !.repeat = SameArguments(run[p], ch, text, title, force, n),
                        !.prev_result =
                            IF SameArguments(run[p], ch, text, title, force, n)
                            THEN run[p].result ELSE <<>>]]
    /\ ncalls' = ncalls + 1
    /\ UNCHANGED <<metadata, files, reader>>

\* lines 610-642: delete the old record's files and its entry
Cleanup(p) ==
    LET r == run[p]
        chapter_key == ChapterKey(r.chapter_index)
    IN /\ r.pc = "cleanup"
       /\ IF chapter_key \in DOMAIN metadata
          THEN /\ files' = files \ Range(OldPaths(metadata[chapter_key]))
               /\ metadata' = RemoveKey(metadata, chapter_key)
               /\ run' = [run EXCEPT ![p].pc = "mark_generating",
                                     ![p].old_paths = OldPaths(metadata[chapter_key])]
          ELSE /\ UNCHANGED <<metadata, files>>
               /\ run' = [run EXCEPT ![p].pc = "mark_generating"]
       /\ UNCHANGED <<ncalls, reader>>

\* line 645
MarkGenerating(p) ==
    LET r == run[p]
        data == ChapterData(<<>>, <<>>, <<>>, "generating", NoException, 0)
        doc == save_image_metadata(metadata, r.chapter_index, <<>>, <<>>, <<>>,
                                   "generating", NoException, 0)
    IN /\ r.pc = "mark_generating"
       /\ metadata' = doc
       /\ run' = [run EXCEPT ![p].pc = "summarize",
                             ![p].old_paths = <<>>,
                             ![p].writes = Append(@, Written(data, Requests(r)))]
       /\ UNCHANGED <<files, ncalls, reader>>

\* Faulty variant: the exception of the scene extraction is swallowed.
SummarizeSwallow(p, reply) ==
    LET r == run[p]
        res == summarize_scenes(r.chapter_text, r.num_images, reply)
    IN /\ r.pc = "summarize"
       /\ run' = [run EXCEPT
                    ![p].clients = @ + res.clients,
                    ![p].text_requests = @ + res.requests,
                    ![p].exc = res.exc,
                    ![p].scenes = res.scenes,
                    ![p].pc = IF res.scenes = <<>> THEN "save_completed"
                              ELSE "scene_loop"]
       /\ UNCHANGED <<metadata, files, ncalls, reader>>

\* lines 651-658: scene extraction, then the head of the scene loop
Summarize(p, reply) ==
    LET r == run[p]
        res == summarize_scenes(r.chapter_text, r.num_images, reply)
    IN /\ r.pc = "summarize"
       /\ run' = [run EXCEPT
                    ![p].clients = @ + res.clients,
                    ![p].text_requests = @ + res.requests,
                    ![p].exc = res.exc,
                    ![p].scenes = res.scenes,
                    ![p].pc = IF res.exc # NoException THEN "handle_error"
                              ELSE IF res.scenes = <<>> THEN "save_completed"
                              ELSE "scene_loop"]
       /\ UNCHANGED <<metadata, files, ncalls, reader>>

\* line 716: the exception raised for a failure in scene i (0-based)
SceneFailure(i, msg) == <<FailedScenePhrase, ToString(i + 1)>> \o msg

\* line 664
SceneLocation(scene, i, num_images) ==
    IF scene.location_percent = NoKey THEN EvenPercent(i, num_images)
    ELSE scene.location_percent

\* Faulty variant: the count lags one image behind.
ProgressCountStale(image_paths) == Len(image_paths) - 1

\* line 704
ProgressCount(image_paths) == Len(image_paths)

\* lines 658-716: one iteration of the scene loop
ProcessScene(p, reply) ==
    LET r == run[p]
        scene == r.scenes[r.i + 1]
        locations == Append(r.scene_locations, SceneLocation(scene, r.i, r.num_images))
        anchors == Append(r.anchor_texts, scene.insert_after_text)
        img == generate_image(reply)
        save_exc == SaveImageError(reply)
        img_path == ImagePath(r.chapter_index, r.chapter_title, scene.scene_number)
        paths == Append(r.image_paths, img_path)
        data == ChapterData(paths, Prefix(locations, r.i + 1), Prefix(anchors, r.i + 1),
                            "generating", NoException, ProgressCount(paths))
        doc == save_image_metadata(metadata, r.chapter_index, paths,
                                   Prefix(locations, r.i + 1), Prefix(anchors, r.i + 1),
                                   "generating", NoException, ProgressCount(paths))
    IN /\ r.pc = "scene_loop"
       /\ IF scene.scene_number = NoKey
          THEN \* line 662 raises KeyError outside the inner try
               /\ reply = [kind |-> "raise", size |-> 0, png |-> FALSE, b64 |-> FALSE]
               /\ run' = [run EXCEPT ![p].exc = KeyErrorMsg, ![p].pc = "handle_error"]
               /\ UNCHANGED <<metadata, files>>
          ELSE IF img.exc # NoException \/ save_exc # NoException
          THEN /\ run' = [run EXCEPT
                            ![p].scene_locations = locations,
                            ![p].anchor_texts = anchors,
                            ![p].clients = @ + img.clients,
                            ![p].image_requests = @ + img.requests,
                            ![p].exc = SceneFailure(r.i, IF img.exc # NoException
                                                          THEN img.exc ELSE save_exc),
                            ![p].pc = "handle_error"]
               /\ UNCHANGED <<metadata, files>>
          ELSE /\ files' = files \cup {img_path}
               /\ metadata' = doc
               /\ run' = [run EXCEPT
                            ![p].scene_locations = locations,
                            ![p].anchor_texts = anchors,
                            ![p].clients = @ + img.clients,
                            ![p].image_requests = @ + img.requests,
                            ![p].image_paths = paths,
                            ![p].i = r.i + 1,
                            ![p].writes =
                                Append(@, Written(data, Requests(r) + img.requests)),
                            ![p].pc = IF r.i + 1 = Len(r.scenes) THEN "save_completed"
                                      ELSE "scene_loop"]
       /\ UNCHANGED <<ncalls, reader>>

\* lines 718-726
SaveCompleted(p) ==
    LET r == run[p]
        data == ChapterData(r.image_paths, r.scene_locations, r.anchor_texts,
                            "completed", NoException, NoKey)
        doc == save_image_metadata(metadata, r.chapter_index, r.image_paths,
                                   r.scene_locations, r.anchor_texts,
                                   "completed", NoException, NoKey)
    IN /\ r.pc = "save_completed"
       /\ metadata' = doc
       /\ run' = [run EXCEPT ![p].pc = "returned",
                             ![p].result = r.image_paths,
                             ![p].writes = Append(@, Written(data, Requests(r)))]
       /\ UNCHANGED <<files, ncalls, reader>>

SafetyUserError ==
    <<"Image generation blocked by safety filters. Try regenerating with different content.">>
NoDataUserError == <<"Image generation failed - no image data received from API.">>

\* lines 734-742
UserError(error_message) ==
    IF Contains(error_message, NoImageDataPhrase)
    THEN IF Contains(error_message, SafetyPhrase) THEN SafetyUserError
         ELSE NoDataUserError
    ELSE IF Contains(error_message, FailedScenePhrase) THEN error_message
    ELSE <<"Generation error:">> \o error_message

\* Faulty variant: the error record keeps the images saved so far.
KeepImages(image_paths) == image_paths

\* line 744: the image list of the error record
ErrorImages(image_paths) == <<>>

\* Faulty variant: the exception is re-raised without the error write.
HandleErrorSilent(p) ==
    /\ run[p].pc = "handle_error"
    /\ run' = [run EXCEPT ![p].pc = "raised"]
    /\ UNCHANGED <<metadata, files, ncalls, reader>>

\* lines 728-748
HandleError(p) ==
    LET r == run[p]
        data == ChapterData(ErrorImages(r.image_paths), <<>>, <<>>,
                            "error", UserError(r.exc), NoKey)
        doc == save_image_metadata(metadata, r.chapter_index,
                                   ErrorImages(r.image_paths), <<>>, <<>>,
                                   "error", UserError(r.exc), NoKey)
    IN /\ r.pc = "handle_error"
       /\ metadata' = doc
       /\ run' = [run EXCEPT ![p].pc = "raised",
                             ![p].writes = Append(@, Written(data, Requests(r)))]
       /\ UNCHANGED <<files, ncalls, reader>>

\* The process is terminated in the middle of a run.
Crash(p) ==
    /\ InFlight(p)
    /\ run' = [run EXCEPT ![p] = [IdleRun EXCEPT !.pc = "killed"]]
    /\ UNCHANGED <<metadata, files, ncalls, reader>>

\* The reading side has done nothing yet.
NoRead == [op |-> "none"]

Init ==
    /\ reader = NoRead
    /\ metadata = EmptyDocument
    /\ files = {}
    /\ run = [p \in Procs |-> IdleRun]
    /\ ncalls = 0

Step(p) ==
    \/ \E ch \in Chapters, text \in Texts, force \in BOOLEAN, n \in NumImages :
          Call(p, ch, text, ChapterTitle(ch), force, n)
    \/ Cleanup(p)
    \/ MarkGenerating(p)
    \/ \E reply \in TextReplies : Summarize(p, reply)
    \/ \E reply \in ImageReplies : ProcessScene(p, reply)
    \/ SaveCompleted(p)
    \/ HandleError(p)

Next == \E p \in SeqProcs : Step(p)

Spec == Init /\ [][Next]_vars

(***************************************************************************)
(* A book directory that already holds records: an earlier run, an older   *)
(* version of the program or an interrupted run left a record for chapter  *)
(* 0 (a legacy list, or an envelope in any status, with or without its     *)
(* files) next to a completed record of chapter 1.  One call is then made, *)
(* and the process may be terminated in the middle of it.                  *)
(***************************************************************************)
Envelope(status, images) ==
    Record("dict", TRUE, images, status, <<>>, <<>>, <<>>, NoKey, SchemaVersion)

StoredPath(chapter_index, scene_number) ==
    ImagePath(chapter_index, ChapterTitle(chapter_index), scene_number)

StoredRecords(chapter_index) ==
    LET one == <<StoredPath(chapter_index, 1)>>
        two == <<StoredPath(chapter_index, 1), StoredPath(chapter_index, 2)>>
    IN IF chapter_index = 0
       THEN {LegacyList(<<>>), LegacyList(one), LegacyList(two),
             Envelope("completed", <<>>), Envelope("completed", one),
             Envelope("completed", two), Envelope("generating", one),
             Envelope("error", <<>>), Envelope(NoStatus, one),
             Record("dict", FALSE, <<>>, "completed", <<>>, <<>>, <<>>, NoKey,
                    SchemaVersion)}
       ELSE {Envelope("completed", one)}

StoredDocuments ==
    {doc \in UNION {[{ChapterKey(ch) : ch \in D} -> UNION {StoredRecords(ch) : ch \in D}] :
                        D \in SUBSET Chapters} :
        \A ch \in Chapters :
            ChapterKey(ch) \in DOMAIN doc => doc[ChapterKey(ch)] \in StoredRecords(ch)}

Referenced(doc) == UNION {Range(doc[k].images) : k \in DOMAIN doc}

InitEnv ==
    /\ reader = NoRead
    /\ metadata \in StoredDocuments
    /\ \E missing \in SUBSET {StoredPath(0, 1), StoredPath(0, 2)} :
          files = Referenced(metadata) \ missing
    /\ run = [p \in Procs |-> IdleRun]
    /\ ncalls = MaxCalls - 1

NextEnv == \E p \in SeqProcs : Step(p) \/ Crash(p)

SpecEnv == InitEnv /\ [][NextEnv]_vars

(***************************************************************************)
(* A run was terminated after it had written a generating record for       *)
(* chapter 0: the record it left is the one of line 645 or the progress    *)
(* record of lines 697-705, and any of the chapter's files may exist.  One *)
(* call is made afterwards.                                                *)
(***************************************************************************)
AbandonedRecords ==
    {ChapterData(<<>>, <<>>, <<>>, "generating", NoException, 0),
     ChapterData(<<StoredPath(0, 1)>>, <<50>>, <<"a">>, "generating", NoException, 1)}

InitAbandoned ==
    /\ reader = NoRead
    /\ \E chapter_data \in AbandonedRecords :
          metadata = PutKey(EmptyDocument, ChapterKey(0), chapter_data)
    /\ files \in SUBSET {StoredPath(0, 1), StoredPath(0, 2)}
    /\ run = [p \in Procs |-> IdleRun]
    /\ ncalls = MaxCalls - 1

SpecRecover == InitAbandoned /\ [][Next]_vars

(***************************************************************************)
(* A reader calls get_cached_images while a generation may be in flight.   *)
(* The call reads the metadata file once, then looks for the listed files  *)
(* one by one; steps of the generation can fall between any two of these.  *)
(***************************************************************************)
\* The generation of the chapter has written its first generating record and
\* not yet its completed or error record.
Generating(chapter_index) ==
    \E p \in Procs :
        /\ InFlight(p) /\ run[p].chapter_index = chapter_index
        /\ run[p].writes # <<>>
        /\ run[p].writes[Len(run[p].writes)].record.status = "generating"

\* Some generation is at a step that rewrites the metadata file.
Writing == \E p \in Procs : run[p].pc \in {"mark_generating", "scene_loop", "save_completed", "handle_error"}

CachedRead(pc, chapter_index, found, chapter_data, existing_paths, k, result, during) ==
    [op |-> "cached", pc |-> pc, chapter_index |-> chapter_index, found |-> found,
     chapter_data |-> chapter_data, existing_paths |-> existing_paths, k |-> k,
     result |-> result, during |-> during]

\* Faulty variant: a record that cannot be served is dropped while loading.
LoadAndPrune(chapter_index) ==
    LET chapter_key == ChapterKey(chapter_index)
        found == chapter_key \in DOMAIN metadata
        chapter_data == IF found THEN metadata[chapter_key] ELSE LegacyList(<<>>)
        listed == found /\ HasImageList(chapter_data)
    IN /\ reader = NoRead
       /\ reader' = CachedRead(IF ~listed THEN "done"
                               ELSE IF chapter_data.images = <<>> THEN "decide"
                               ELSE "exists",
                               chapter_index, found, chapter_data, <<>>, 0, CacheNone,
                               Generating(chapter_index))
       /\ metadata' = IF found /\ ~listed THEN RemoveKey(metadata, chapter_key) ELSE metadata
       /\ UNCHANGED <<files, run, ncalls>>

\* lines 475-491: open and parse the file, pick the chapter's record
LoadMetadata(chapter_index) ==
    LET chapter_key == ChapterKey(chapter_index)
        found == chapter_key \in DOMAIN metadata
        chapter_data == IF found THEN metadata[chapter_key] ELSE LegacyList(<<>>)
        listed == found /\ HasImageList(chapter_data)
    IN /\ reader = NoRead
       /\ reader' = CachedRead(IF ~listed THEN "done"
                               ELSE IF chapter_data.images = <<>> THEN "decide"
                               ELSE "exists",
                               chapter_index, found, chapter_data, <<>>, 0, CacheNone,
                               Generating(chapter_index))
       /\ UNCHANGED <<metadata, files, run, ncalls>>

\* lines 478-479, 510-512: the file is read while it is being rewritten, the
\* parse fails and the exception is caught
LoadTorn(chapter_index) ==
    /\ reader = NoRead
    /\ Writing
    /\ reader' = CachedRead("done", chapter_index, FALSE, LegacyList(<<>>), <<>>, 0,
                            CacheNone, Generating(chapter_index))
    /\ UNCHANGED <<metadata, files, run, ncalls>>

\* lines 494-498: one iteration of the existence loop
PathExists ==
    /\ reader.op = "cached" /\ reader.pc = "exists"
    /\ LET img_path == reader.chapter_data.images[reader.k + 1] IN
       reader' = [reader EXCEPT
                    !.existing_paths = IF img_path \in files THEN Append(@, img_path) ELSE @,
                    !.k = @ + 1,
                    !.pc = IF reader.k + 1 = Len(reader.chapter_data.images)
                           THEN "decide" ELSE "exists"]
    /\ UNCHANGED <<metadata, files, run, ncalls>>

\* lines 500-509
ReturnCached ==
    /\ reader.op = "cached" /\ reader.pc = "decide"
    /\ reader' = [reader EXCEPT
                    !.result = CacheDecision(reader.chapter_data, reader.existing_paths),
                    !.pc = "done"]
    /\ UNCHANGED <<metadata, files, run, ncalls>>

(***************************************************************************)
(* Anchor resolver: find_insertion_point.  A paragraph is the text that    *)
(* get_text extracts from it, a sequence of characters.  The two rapidfuzz *)
(* scores are results of a library outside the program: for each          *)
(* paragraph text any score of RatioScores / PartialScores may come back.  *)
(***************************************************************************)
MaxParagraphs == 3      \* longest paragraph stream with mixed paragraphs
SimilarityThreshold == 80
PartialThreshold == 85
DefaultPercent == 50

ParagraphTexts == {<<"a">>, <<"A", " ", "b">>}
ShortStreams == UNION {[1..n -> ParagraphTexts] : n \in 0..MaxParagraphs}
\* Longer streams, of equal paragraphs: only their length matters.
LongLengths == {10, 50}
LongStreams == {[j \in 1..n |-> <<"a">>] : n \in LongLengths}
Streams == ShortStreams \cup LongStreams

\* An anchor argument: None, or a text.
NoAnchor == [none |-> TRUE, text |-> <<>>]
Anchor(text) == [none |-> FALSE, text |-> text]
Anchors ==
    {NoAnchor} \cup
    {Anchor(t) : t \in {<<>>, <<" ">>, <<"a">>, <<"b">>, <<"a", " ", " ", "B">>, <<"c">>}}
Percents == 0..100

RatioScores == {0, SimilarityThreshold - 1, SimilarityThreshold}
PartialScores == {0, PartialThreshold}
NoScores == [t \in ParagraphTexts |-> 0]

\* str.lower()
Lower(c) == IF c = "A" THEN "a" ELSE IF c = "B" THEN "b" ELSE c
LowerText(s) == [j \in 1..Len(s) |-> Lower(s[j])]

\* ' '.join(s.split()): no blank at either end, one blank between words
RECURSIVE JoinWords(_)
JoinWords(s) ==
    IF s = <<>> THEN <<>>
    ELSE IF Head(s) = " " /\ Len(s) > 1 /\ s[2] = " " THEN JoinWords(Tail(s))
    ELSE <<Head(s)>> \o JoinWords(Tail(s))

SplitJoin(s) == JoinWords(Strip(s))

\* needle in text
IsInfix(needle, text) ==
    \E j \in 0..(Len(text) - Len(needle)) : SubSeq(text, j + 1, j + Len(needle)) = needle

\* line 773: not anchor_text or not anchor_text.strip()
IsBlankAnchor(anchor_text) ==
    anchor_text.none \/ anchor_text.text = <<>> \/ Strip(anchor_text.text) = <<>>

\* Faulty variant: the last paragraph that contains the anchor is taken.
LastOf(indices) ==
    CHOOSE i \in indices : \A j \in indices : j <= i

\* lines 800-806: the loop returns at the first paragraph that contains it
FirstOf(indices) ==
    CHOOSE i \in indices : \A j \in indices : i <= j

\* lines 809-816, 826-833: the 0-based index of the first paragraph with the
\* best score, -1 when no score is above 0
BestIndex(paragraphs, score) ==
    LET positive == {i \in 1..Len(paragraphs) : score[paragraphs[i]] > 0} IN
    IF positive = {} THEN 0 - 1
    ELSE (CHOOSE i \in positive :
            /\ \A j \in positive : score[paragraphs[j]] <= score[paragraphs[i]]
            /\ \A j \in positive :
                  score[paragraphs[j]] = score[paragraphs[i]] => i <= j) - 1

BestScore(paragraphs, score) ==
    LET idx == BestIndex(paragraphs, score) IN
    IF idx < 0 THEN 0 ELSE score[paragraphs[idx + 1]]

\* Faulty variant: the partial score is tried before the full score.
FindPartialFirst(paragraphs, anchor_text, fallback_percent, rapidfuzz, ratio, partial) ==
    LET fallback == FallbackIndex(fallback_percent, Len(paragraphs))
        anchor_clean == LowerText(SplitJoin(anchor_text.text))
        exact == {i \in 1..Len(paragraphs) :
                     IsInfix(anchor_clean, LowerText(paragraphs[i]))}
    IN IF IsBlankAnchor(anchor_text) THEN fallback
       ELSE IF ~rapidfuzz THEN fallback
       ELSE IF exact # {} THEN FirstOf(exact) - 1
       ELSE IF BestScore(paragraphs, partial) >= PartialThreshold
            THEN BestIndex(paragraphs, partial)
       ELSE IF BestScore(paragraphs, ratio) >= SimilarityThreshold
            THEN BestIndex(paragraphs, ratio)
       ELSE fallback

\* find_insertion_point (lines 751-852); rapidfuzz says whether the import of
\* line 779 succeeds, ratio and partial are the scores of fuzz.ratio and
\* fuzz.partial_ratio for each paragraph text
find_insertion_point(paragraphs, anchor_text, fallback_percent, rapidfuzz, ratio, partial) ==
    LET fallback == FallbackIndex(fallback_percent, Len(paragraphs))
        anchor_clean == LowerText(SplitJoin(anchor_text.text))
        exact == {i \in 1..Len(paragraphs) :
                     IsInfix(anchor_clean, LowerText(paragraphs[i]))}
    IN IF IsBlankAnchor(anchor_text) THEN fallback
       ELSE IF ~rapidfuzz THEN fallback
       ELSE IF exact # {} THEN FirstOf(exact) - 1
       ELSE IF BestScore(paragraphs, ratio) >= SimilarityThreshold
            THEN BestIndex(paragraphs, ratio)
       ELSE IF BestScore(paragraphs, partial) >= PartialThreshold
            THEN BestIndex(paragraphs, partial)
       ELSE fallback

\* The scores are consulted: the anchor is not blank, rapidfuzz is there and
\* no paragraph contains the anchor.
ScoresConsulted(paragraphs, anchor_text, rapidfuzz) ==
    /\ ~IsBlankAnchor(anchor_text) /\ rapidfuzz
    /\ \A i \in 1..Len(paragraphs) :
          ~IsInfix(LowerText(SplitJoin(anchor_text.text)), LowerText(paragraphs[i]))

(***************************************************************************)
(* Html injector: inject_images_into_html.  The parsed document is the     *)
(* sequence of its nodes; a paragraph keeps the identity (id) it has in    *)
(* the list find_all returned, which is how insert_after finds it again.   *)
(***************************************************************************)
\* style: the node has the style attribute of lines 884 and 920; raw: the
\* node is written in the input otherwise than the serializer writes it
\* (a void tag such as <br>, which comes out as <br/>).
Node(tag, id, text, src, alt) ==
    [tag |-> tag, id |-> id, text |-> text, src |-> src, alt |-> alt,
     style |-> FALSE, raw |-> FALSE]
Paragraph(id, text) == Node("p", id, text, <<>>, FALSE)
Heading == Node("h1", 0, <<>>, <<>>, FALSE)
RawBreak == [Node("br", 0, <<>>, <<>>, FALSE) EXCEPT !.raw = TRUE]

\* lines 883-884 and 918-921: the new tag, always styled, with or without alt
ImgTag(src, alt) == [Node("img", 0, <<>>, <<src>>, alt) EXCEPT !.style = TRUE]

\* str(soup), lines 888 and 925: every node in the serializer's form
Serialize(doc) == [i \in 1..Len(doc) |-> [doc[i] EXCEPT !.raw = FALSE]]

\* The document of a paragraph stream, with or without a heading after its
\* first paragraph.
Html(stream, heading) ==
    LET nodes == [i \in 1..Len(stream) |-> Paragraph(i, stream[i])] IN
    IF ~heading THEN nodes
    ELSE IF nodes = <<>> THEN <<Heading>>
    ELSE <<nodes[1], Heading>> \o Tail(nodes)

RawDocuments == {<<RawBreak>>, <<Paragraph(1, <<"a">>), RawBreak>>}
HtmlDocuments == {Html(stream, h) : stream \in ShortStreams, h \in BOOLEAN} \cup RawDocuments

\* soup.find_all('p'), line 879
FindAll(doc) == SelectSeq(doc, LAMBDA node : node.tag = "p")

\* paragraphs[para_idx], line 917, with Python's negative indices
ParagraphAt(paragraphs, para_idx) ==
    IF para_idx >= 0 THEN paragraphs[para_idx + 1]
    ELSE paragraphs[Len(paragraphs) + para_idx + 1]

PositionOf(doc, para) == CHOOSE j \in 1..Len(doc) : doc[j] = para

\* Faulty variant: the node is put in front of the paragraph.
InsertBefore(doc, para, node) ==
    LET j == PositionOf(doc, para)
    IN SubSeq(doc, 1, j - 1) \o <<node>> \o SubSeq(doc, j, Len(doc))

\* para.insert_after(img_tag), line 922
InsertAfter(doc, para, node) ==
    LET j == PositionOf(doc, para)
    IN SubSeq(doc, 1, j) \o <<node>> \o SubSeq(doc, j + 1, Len(doc))

\* line 911: list.sort(reverse=True, key=index), a stable sort
RECURSIVE SortDescending(_)
SortDescending(points) ==
    IF points = <<>> THEN <<>>
    ELSE LET front == SortDescending(SubSeq(points, 1, Len(points) - 1))
             point == points[Len(points)]
             ahead == SelectSeq(front, LAMBDA q : q.para_idx >= point.para_idx)
             behind == SelectSeq(front, LAMBDA q : q.para_idx < point.para_idx)
         IN ahead \o <<point>> \o behind

\* lines 914-922
RECURSIVE InsertAll(_, _, _)
InsertAll(doc, paragraphs, points) ==
    IF points = <<>> THEN doc
    ELSE LET point == Head(points)
             next == IF point.para_idx < Len(paragraphs)
                     THEN InsertAfter(doc, ParagraphAt(paragraphs, point.para_idx),
                                      ImgTag(point.img_path, TRUE))
                     ELSE doc
         IN InsertAll(next, paragraphs, Tail(points))

\* lines 890-908: the insertion point of image i (1-based); anchor_texts is
\* NoAnchorTexts when the argument is left out
NoAnchorTexts == <<>>

InsertionPoint(paragraphs, i, image_paths, scene_locations, anchor_texts, rapidfuzz, ratio, partial) ==
    LET anchor_text == IF i <= Len(anchor_texts) THEN anchor_texts[i] ELSE NoAnchor
        fallback_percent == IF i <= Len(scene_locations) THEN scene_locations[i]
                            ELSE DefaultPercent
        texts == [j \in 1..Len(paragraphs) |-> paragraphs[j].text]
    IN [para_idx |-> find_insertion_point(texts, anchor_text, fallback_percent,
                                          rapidfuzz, ratio, partial),
        img_path |-> image_paths[i]]

\* Faulty variant: the document is parsed and written back even when there
\* is no image to insert.
InjectWithoutEarlyReturn(html_content, image_paths, scene_locations, anchor_texts, rapidfuzz, ratio, partial) ==
    LET paragraphs == FindAll(html_content)
        insertion_points ==
            [i \in 1..Len(image_paths) |->
                InsertionPoint(paragraphs, i, image_paths, scene_locations,
                               anchor_texts, rapidfuzz, ratio, partial)]
    IN IF paragraphs = <<>>
       THEN Serialize(html_content
                      \o [i \in 1..Len(image_paths) |-> ImgTag(image_paths[i], FALSE)])
       ELSE Serialize(InsertAll(html_content, paragraphs, SortDescending(insertion_points)))

\* inject_images_into_html (lines 855-925)
inject_images_into_html(html_content, image_paths, scene_locations, anchor_texts, rapidfuzz, ratio, partial) ==
    LET paragraphs == FindAll(html_content)
        insertion_points ==
            [i \in 1..Len(image_paths) |->
                InsertionPoint(paragraphs, i, image_paths, scene_locations,
                               anchor_texts, rapidfuzz, ratio, partial)]
    IN IF image_paths = <<>> THEN html_content
       ELSE IF paragraphs = <<>>
            THEN Serialize(html_content
                           \o [i \in 1..Len(image_paths) |-> ImgTag(image_paths[i], FALSE)])
       ELSE Serialize(InsertAll(html_content, paragraphs, SortDescending(insertion_points)))

\* Faulty variant: the resolver is asked for every image, paragraphs or not.
ResolverCallsAlways(html_content, image_paths) == Len(image_paths)

\* lines 873-908: the number of find_insertion_point calls of one injection
ResolverCalls(html_content, image_paths) ==
    IF image_paths = <<>> \/ FindAll(html_content) = <<>> THEN 0
    ELSE Len(image_paths)

(***************************************************************************)
(* The reading side applies the two functions once, to arguments of its    *)
(* choice.                                                                 *)
(***************************************************************************)
MaxInjected == 2        \* most images injected into one document

InjectPaths == UNION {[1..n -> {StoredPath(0, 1), StoredPath(0, 2)}] : n \in 0..MaxInjected}
InjectLocations == UNION {[1..n -> {0, 100}] : n \in 0..MaxInjected}
InjectAnchors == UNION {[1..n -> {NoAnchor, Anchor(<<"b">>)}] : n \in 0..MaxInjected}
FullScores == [t \in ParagraphTexts |-> SimilarityThreshold]

FindInsertionPoint ==
    /\ reader = NoRead
    /\ \E paragraphs \in Streams, anchor_text \in Anchors, fallback_percent \in Percents,
          rapidfuzz \in BOOLEAN,
          ratio \in [ParagraphTexts -> RatioScores],
          partial \in [ParagraphTexts -> PartialScores] :
          /\ IsBlankAnchor(anchor_text) => rapidfuzz
          /\ ~ScoresConsulted(paragraphs, anchor_text, rapidfuzz) =>
                (ratio = NoScores /\ partial = NoScores)
          /\ BestScore(paragraphs, ratio) >= SimilarityThreshold => partial = NoScores
          /\ reader' = [op |-> "find", paragraphs |-> paragraphs,
                        anchor_text |-> anchor_text,
                        fallback_percent |-> fallback_percent,
                        rapidfuzz |-> rapidfuzz, ratio |-> ratio, partial |-> partial,
                        result |-> find_insertion_point(paragraphs, anchor_text,
                                        fallback_percent, rapidfuzz, ratio, partial)]
    /\ UNCHANGED <<metadata, files, run, ncalls>>

InjectImages ==
    /\ reader = NoRead
    /\ \E html_content \in HtmlDocuments, image_paths \in InjectPaths,
          scene_locations \in InjectLocations, anchor_texts \in InjectAnchors,
          ratio \in {NoScores, FullScores} :
          reader' = [op |-> "inject", html_content |-> html_content,
                     image_paths |-> image_paths, scene_locations |-> scene_locations,
                     anchor_texts |-> anchor_texts, ratio |-> ratio,
                     resolver_calls |-> ResolverCalls(html_content, image_paths),
                     result |-> inject_images_into_html(html_content, image_paths,
                                    scene_locations, anchor_texts, TRUE, ratio, NoScores)]
    /\ UNCHANGED <<metadata, files, run, ncalls>>

NextPlace == InjectImages \/ FindInsertionPoint

SpecPlace == Init /\ [][NextPlace]_vars

(***************************************************************************)
(* The resolver with every combination of scores: what fuzz.ratio and      *)
(* fuzz.partial_ratio would return for a paragraph is given for every      *)
(* call, also for those in which the function returns before asking.       *)
(***************************************************************************)
TierPercents == {0, 100}

ResolveAnchor ==
    /\ reader = NoRead
    /\ \E paragraphs \in ShortStreams, anchor_text \in Anchors,
          fallback_percent \in TierPercents, rapidfuzz \in BOOLEAN,
          ratio \in [ParagraphTexts -> RatioScores],
          partial \in [ParagraphTexts -> PartialScores] :
          reader' = [op |-> "find", paragraphs |-> paragraphs,
                     anchor_text |-> anchor_text,
                     fallback_percent |-> fallback_percent,
                     rapidfuzz |-> rapidfuzz, ratio |-> ratio, partial |-> partial,
                     result |-> find_insertion_point(paragraphs, anchor_text,
                                     fallback_percent, rapidfuzz, ratio, partial)]
    /\ UNCHANGED <<metadata, files, run, ncalls>>

SpecTiers == Init /\ [][ResolveAnchor]_vars

(***************************************************************************)
(* The reading route of the server, get_chapter_with_images: the cached    *)
(* list, when there is one, is injected into the chapter's html at the     *)
(* scene locations that a second read of the metadata file finds.          *)
(***************************************************************************)
DefaultLocations == <<25, 50, 75>>
ChapterContents == {<<Heading>>, Html(<<<<"a">>, <<"A", " ", "b">>>>, TRUE)}

\* server.py lines 84-98
StoredLocations(doc, chapter_index, torn) ==
    LET chapter_key == ChapterKey(chapter_index) IN
    IF torn \/ chapter_key \notin DOMAIN doc THEN DefaultLocations
    ELSE IF doc[chapter_key].kind = "dict" /\ doc[chapter_key].scene_locations # <<>>
         THEN doc[chapter_key].scene_locations
         ELSE DefaultLocations

\* server.py lines 82-101
InjectCached(html_content, torn) ==
    /\ reader.op = "cached" /\ reader.pc = "done" /\ Truthy(reader.result)
    /\ torn => Writing
    /\ LET scene_locations == StoredLocations(metadata, reader.chapter_index, torn) IN
       reader' = [op |-> "inject", html_content |-> html_content,
                  image_paths |-> reader.result.paths,
                  scene_locations |-> scene_locations,
                  anchor_texts |-> NoAnchorTexts, ratio |-> NoScores,
                  resolver_calls |-> ResolverCalls(html_content, reader.result.paths),
                  result |-> inject_images_into_html(html_content, reader.result.paths,
                                 scene_locations, NoAnchorTexts, TRUE, NoScores, NoScores)]
    /\ UNCHANGED <<metadata, files, run, ncalls>>

Read ==
    \/ \E chapter_index \in Chapters : LoadMetadata(chapter_index)
    \/ \E chapter_index \in Chapters : LoadTorn(chapter_index)
    \/ PathExists
    \/ ReturnCached
    \/ \E html_content \in ChapterContents, torn \in BOOLEAN : InjectCached(html_content, torn)

NextRead == (\E p \in SeqProcs : Step(p)) \/ Read

SpecRead == InitEnv /\ [][NextRead]_vars

(***************************************************************************)
(* Scene extraction called on its own, as the tests call it: any text, any *)
(* scene count up to the default of the signature, any reply.              *)
(***************************************************************************)
DefaultNumScenes == 3

\* A well-formed reply for n scenes, numbered 1..n, each with its summary
\* only.
NumberedReply(n) ==
    [kind |-> "json", scenes |-> [k \in 1..n |-> Scene(k, "llm", NoText, NoKey)]]
SceneCounts == 0..(DefaultNumScenes + 2)
SceneReplies == TextReplies \cup {NumberedReply(n) : n \in SceneCounts}

SummarizeScenes ==
    /\ reader = NoRead
    /\ \E chapter_text \in Texts, num_scenes \in SceneCounts, reply \in SceneReplies :
          reader' = [op |-> "summarize", chapter_text |-> chapter_text,
                     num_scenes |-> num_scenes, reply |-> reply,
                     result |-> summarize_scenes(chapter_text, num_scenes, reply)]
    /\ UNCHANGED <<metadata, files, run, ncalls>>

SpecScenes == Init /\ [][SummarizeScenes]_vars

(***************************************************************************)
(* save_image called on its own with any payload: empty, short or long,    *)
(* starting with the PNG signature, base64 text of such bytes, or neither. *)
(***************************************************************************)
PayloadSizes == {0, MinImageBytes - 1, MinImageBytes, MinImageBytes + 1, 4 * (MinImageBytes \div 3 + 1)}
Payloads ==
    {[kind |-> "image", size |-> n, png |-> h = "png", b64 |-> h = "base64"] :
        n \in PayloadSizes, h \in {"png", "base64", "other"}}
NothingSaved == [size |-> 0, png |-> FALSE]

\* save_image (lines 409-465)
SaveImage(image_bytes, chapter_index, scene_number, chapter_title) ==
    LET exc == SaveImageError(image_bytes)
        path == ImagePath(chapter_index, chapter_title, scene_number)
    IN /\ reader = NoRead
       /\ reader' = [op |-> "save", image_bytes |-> image_bytes, exc |-> exc, path |-> path,
                     makedirs |-> exc = NoException,
                     written |-> IF exc = NoException THEN SavedBytes(image_bytes)
                                 ELSE NothingSaved]
       /\ files' = IF exc = NoException THEN files \cup {path} ELSE files
       /\ UNCHANGED <<metadata, run, ncalls>>

NextSave ==
    \E image_bytes \in Payloads, chapter_index \in Chapters, scene_number \in SceneNumbers, chapter_title \in Titles :
        SaveImage(image_bytes, chapter_index, scene_number, chapter_title)

SpecSave == Init /\ [][NextSave]_vars

(***************************************************************************)
(* sanitize_chapter_title called on its own with the default max_length:   *)
(* short titles over every kind of character, and titles long enough to be *)
(* truncated, with any short ending.                                       *)
(***************************************************************************)
MaxTitleLen == 3        \* longest short title / ending of a long title

TitleChars == {"a", " ", "_", "-", "!", "/"}
ShortTitles == UNION {[1..n -> TitleChars] : n \in 0..MaxTitleLen}
LongTitles ==
    {[j \in 1..(DefaultMaxTitleLength - 1) |-> "a"] \o t : t \in ShortTitles}
TitleInputs == ShortTitles \cup LongTitles

SanitizeTitle ==
    /\ reader = NoRead
    /\ \E title \in TitleInputs :
          LET sanitized == sanitize_chapter_title(title, DefaultMaxTitleLength) IN
          reader' = [op |-> "sanitize", title |-> title, result |-> sanitized,
                     again |-> sanitize_chapter_title(sanitized, DefaultMaxTitleLength)]
    /\ UNCHANGED <<metadata, files, run, ncalls>>

SpecTitle == Init /\ [][SanitizeTitle]_vars

(***************************************************************************)
(* Concurrent regeneration.  The server hands every request of the         *)
(* generate-illustrations endpoint to a background task (server.py lines   *)
(* 184-194), so two runs of generate_illustrations_for_chapter can be in   *)
(* flight at once.  Nothing locks the metadata file: each access to the    *)
(* book directory is a step of its own, and the steps of the other run can *)
(* fall between the read and the write of one save_image_metadata call.    *)
(***************************************************************************)
RaceImages == 1         \* num_images of a concurrent run

RaceTextReplies ==
    {[kind |-> "raise", scenes |-> <<>>],
     [kind |-> "json", scenes |-> <<Scene(1, "llm", "a", 50)>>]}

RaceImageReplies ==
    {[kind |-> "raise", size |-> 0, png |-> FALSE, b64 |-> FALSE],
     [kind |-> "image", size |-> MinImageBytes, png |-> TRUE, b64 |-> FALSE]}

\* server.py lines 184-194: a forced run is started as a background task
Regenerate(p, ch) ==
    /\ run[p].pc = "idle"
    /\ Call(p, ch, <<"a">>, ChapterTitle(ch), TRUE, RaceImages)

\* lines 613-627: the cleanup reads the metadata file
CleanupLoad(p) ==
    LET r == run[p]
        chapter_key == ChapterKey(r.chapter_index)
    IN /\ r.pc = "cleanup"
       /\ run' = [run EXCEPT
                    ![p].pc = IF chapter_key \in DOMAIN metadata THEN "cleanup_remove"
                              ELSE "mark_generating",
                    ![p].loaded = IF chapter_key \in DOMAIN metadata
                                  THEN Loaded(metadata) ELSE NotLoaded,
                    ![p].old_paths = IF chapter_key \in DOMAIN metadata
                                     THEN OldPaths(metadata[chapter_key]) ELSE <<>>]
       /\ UNCHANGED <<metadata, files, ncalls, reader>>

\* lines 629-634: the old files are removed
CleanupRemove(p) ==
    /\ run[p].pc = "cleanup_remove"
    /\ files' = files \ Range(run[p].old_paths)
    /\ run' = [run EXCEPT ![p].pc = "cleanup_write"]
    /\ UNCHANGED <<metadata, ncalls, reader>>

\* lines 637-639: the loaded document is written back without the key
CleanupWrite(p) ==
    LET r == run[p] IN
    /\ r.pc = "cleanup_write"
    /\ metadata' = RemoveKey(r.loaded.doc, ChapterKey(r.chapter_index))
    /\ run' = [run EXCEPT ![p].pc = "mark_generating",
                          ![p].loaded = NotLoaded,
                          ![p].old_paths = <<>>]
    /\ UNCHANGED <<files, ncalls, reader>>

\* The places of a run at which save_image_metadata is called: lines 645,
\* 697-705, 720 and 744.
SavePoints == {"mark_generating", "scene_record", "save_completed", "handle_error"}

\* lines 540-547: save_image_metadata reads the metadata file
SaveLoad(p) ==
    /\ run[p].pc \in SavePoints
    /\ run[p].loaded.none
    /\ run' = [run EXCEPT ![p].loaded = Loaded(metadata)]
    /\ UNCHANGED <<metadata, files, ncalls, reader>>

\* Another run has loaded the file and is writing it back (lines 566-568 and
\* 638-639: open(..., "w") empties the file before json.dump fills it).
WritingBack(p) ==
    \E q \in Procs \ {p} :
        /\ run[q].pc \in SavePoints \cup {"cleanup_write"}
        /\ ~run[q].loaded.none

\* lines 542-547: the file is read while it is being rewritten; json.load
\* raises, the bare except leaves metadata = {}
SaveLoadTorn(p) ==
    /\ run[p].pc \in SavePoints
    /\ run[p].loaded.none
    /\ WritingBack(p)
    /\ run' = [run EXCEPT ![p].loaded = Loaded(EmptyDocument)]
    /\ UNCHANGED <<metadata, files, ncalls, reader>>

\* The record the call at r's place hands to save_image_metadata.
PendingRecord(r) ==
    IF r.pc = "mark_generating"
    THEN ChapterData(<<>>, <<>>, <<>>, "generating", NoException, 0)
    ELSE IF r.pc = "scene_record"
    THEN ChapterData(r.image_paths, Prefix(r.scene_locations, r.i + 1),
                     Prefix(r.anchor_texts, r.i + 1), "generating", NoException,
                     ProgressCount(r.image_paths))
    ELSE IF r.pc = "save_completed"
    THEN ChapterData(r.image_paths, r.scene_locations, r.anchor_texts,
                     "completed", NoException, NoKey)
    ELSE ChapterData(ErrorImages(r.image_paths), <<>>, <<>>,
                     "error", UserError(r.exc), NoKey)

\* Where the run goes on after the call has returned.
AfterSave(r) ==
    IF r.pc = "mark_generating" THEN "summarize"
    ELSE IF r.pc = "scene_record"
    THEN IF r.i + 1 = Len(r.scenes) THEN "save_completed" ELSE "scene_loop"
    ELSE IF r.pc = "save_completed" THEN "returned"
    ELSE "raised"

\* lines 549-568: the key is set in the loaded document, which is written back
SaveWrite(p) ==
    LET r == run[p]
        data == PendingRecord(r)
    IN /\ r.pc \in SavePoints
       /\ ~r.loaded.none
       /\ metadata' = PutKey(r.loaded.doc, ChapterKey(r.chapter_index), data)
       /\ run' = [run EXCEPT
                    ![p].pc = AfterSave(r),
                    ![p].loaded = NotLoaded,
                    ![p].i = IF r.pc = "scene_record" THEN r.i + 1 ELSE r.i,
                    ![p].result = IF r.pc = "save_completed" THEN r.image_paths
                                  ELSE r.result,
                    ![p].writes = Append(@, Written(data, Requests(r)))]
       /\ UNCHANGED <<files, ncalls, reader>>

\* lines 658-695: one image is generated and saved
SceneImage(p, reply) ==
    LET r == run[p]
        scene == r.scenes[r.i + 1]
        img == generate_image(reply)
        save_exc == SaveImageError(reply)
        img_path == ImagePath(r.chapter_index, r.chapter_title, scene.scene_number)
    IN /\ r.pc = "scene_loop"
       /\ IF img.exc # NoException \/ save_exc # NoException
          THEN /\ run' = [run EXCEPT
                            ![p].scene_locations =
                                Append(@, SceneLocation(scene, r.i, r.num_images)),
                            ![p].anchor_texts = Append(@, scene.insert_after_text),
                            ![p].clients = @ + img.clients,
                            ![p].image_requests = @ + img.requests,
                            ![p].exc = SceneFailure(r.i, IF img.exc # NoException
                                                          THEN img.exc ELSE save_exc),
                            ![p].pc = "handle_error"]
               /\ UNCHANGED files
          ELSE /\ files' = files \cup {img_path}
               /\ run' = [run EXCEPT
                            ![p].scene_locations =
                                Append(@, SceneLocation(scene, r.i, r.num_images)),
                            ![p].anchor_texts = Append(@, scene.insert_after_text),
                            ![p].clients = @ + img.clients,
                            ![p].image_requests = @ + img.requests,
                            ![p].image_paths = Append(@, img_path),
                            ![p].pc = "scene_record"]
       /\ UNCHANGED <<metadata, ncalls, reader>>

RaceStep(p) ==
    \/ \E ch \in Chapters : Regenerate(p, ch)
    \/ CleanupLoad(p)
    \/ CleanupRemove(p)
    \/ CleanupWrite(p)
    \/ SaveLoad(p)
    \/ SaveLoadTorn(p)
    \/ SaveWrite(p)
    \/ \E reply \in RaceTextReplies : Summarize(p, reply)
    \/ \E reply \in RaceImageReplies : SceneImage(p, reply)

NextRace == \E p \in Procs : RaceStep(p)

SpecRace == Init /\ [][NextRace]_vars

(***************************************************************************)
(* Properties                                                              *)
(***************************************************************************)
\* The text is empty or holds nothing but blanks.
WhitespaceOnly(text) == \A j \in 1..Len(text) : text[j] = " "

RecordOf(r) == metadata[ChapterKey(r.chapter_index)]
HasRecord(r) == ChapterKey(r.chapter_index) \in DOMAIN metadata
Statuses(r) == [j \in 1..Len(r.writes) |-> r.writes[j].record.status]
Last(s) == s[Len(s)]

\* The repeated call made no external request, did not fail, and returned
\* the list the first call returned.
RepeatIsSilent(r) ==
    /\ r.clients = 0 /\ Requests(r) = 0
    /\ r.pc \notin {"handle_error", "raised"}
    /\ r.pc = "returned" => r.result = r.prev_result

\* C1 (as stated): a second non-forced call with the arguments of a call that
\* returned makes no external call and returns the same path list, for every
\* chapter text and every num_images.
C1_Idempotent == \A p \in Procs : run[p].repeat => RepeatIsSilent(run[p])

\* C1 (amended): the same, except for num_images = 0 with a non-blank text,
\* where the empty completed record is never a cache hit.
C1_IdempotentNonZero ==
    \A p \in Procs :
        (run[p].repeat /\ ~(run[p].num_images = 0 /\ ~WhitespaceOnly(run[p].chapter_text)))
            => RepeatIsSilent(run[p])

C1_Witness ==
    \E p \in Procs :
        /\ run[p].repeat /\ run[p].pc = "returned"
        /\ run[p].num_images = 2 /\ Len(run[p].result) = 2
        /\ run[p].writes = <<>>

\* The call answered from the cache: it returned the list and did nothing else.
CallHit(r, images) ==
    /\ r.pc = "returned" /\ r.result = images
    /\ r.clients = 0 /\ Requests(r) = 0 /\ r.writes = <<>>

\* The call was not answered from the cache: generation proceeds.
CallMiss(r) == r.pc \in {"cleanup", "mark_generating"}

CompletedFilesExist ==
    \A k \in DOMAIN metadata :
        metadata[k].status = "completed" => Range(metadata[k].images) \subseteq files

C3_CompletedRecord ==
    /\ CompletedFilesExist
    /\ \A p \in Procs : \A j \in 1..Len(run[p].writes) :
          run[p].writes[j].record.status = "completed"
              => Len(run[p].writes[j].record.images) = run[p].num_images

\* C3 (amended): the count equals num_images unless the chapter text of the
\* writing call was blank, in which case the completed record lists no image.
C3_CompletedRecordNonBlank ==
    /\ CompletedFilesExist
    /\ \A p \in Procs : \A j \in 1..Len(run[p].writes) :
          run[p].writes[j].record.status = "completed"
              => Len(run[p].writes[j].record.images) =
                    IF WhitespaceOnly(run[p].chapter_text) THEN 0 ELSE run[p].num_images

C3_Witness ==
    \E p \in Procs :
        /\ run[p].pc = "returned" /\ run[p].num_images = 2
        /\ HasRecord(run[p]) /\ RecordOf(run[p]).status = "completed"
        /\ Len(RecordOf(run[p]).images) = 2
        /\ Range(RecordOf(run[p]).images) \subseteq files
        /\ \E k \in DOMAIN metadata :
              k # ChapterKey(run[p].chapter_index) /\ metadata[k].status = "completed"

\* The run of r failed in the image step of a scene.
SceneFailed(r) == Contains(r.exc, FailedScenePhrase)

\* C4: when the image of scene k fails, no image call is made for a later
\* scene, no write of the run is completed, the run ends raising, and its last
\* write is an error record with no images and a non-empty message.
C4_AbortOnSceneFailure ==
    \A p \in Procs :
        SceneFailed(run[p]) =>
            /\ run[p].pc \in {"handle_error", "raised"}
            /\ run[p].image_requests <= run[p].i + 1
            /\ \A j \in 1..Len(run[p].writes) :
                  run[p].writes[j].record.status # "completed"
            /\ RecordOf(run[p]).status # "completed"
            /\ run[p].pc = "raised" =>
                  /\ Last(run[p].writes).record.status = "error"
                  /\ Last(run[p].writes).record.images = <<>>
                  /\ Last(run[p].writes).record.error # <<>>
                  /\ RecordOf(run[p]) = Last(run[p].writes).record

C4_Witness ==
    \E p \in Procs :
        /\ run[p].pc = "raised" /\ SceneFailed(run[p])
        /\ Contains(run[p].exc, "Image too small")
        /\ run[p].num_images = 2 /\ run[p].i = 1
        /\ run[p].image_requests = 2
        /\ Len(run[p].image_paths) = 1

\* C5: a call that is not a cache hit first writes generating with no images
\* and a count of 0 before any external request; it then writes only
\* generating until one terminal write (completed or error), which is its
\* last, so the record is not generating once the call has ended.
C5_StateMachine ==
    \A p \in Procs :
        LET r == run[p] IN
        /\ (r.clients > 0 \/ Requests(r) > 0) => r.writes # <<>>
        /\ r.pc \in {"summarize", "scene_loop", "save_completed", "handle_error"} =>
              /\ r.writes # <<>>
              /\ \A j \in 1..Len(r.writes) : Statuses(r)[j] = "generating"
        /\ r.writes # <<>> =>
              /\ r.writes[1].record.status = "generating"
              /\ r.writes[1].record.images = <<>>
              /\ r.writes[1].record.current_image_count = 0
              /\ r.writes[1].requests = 0
        /\ (r.pc \in {"returned", "raised"} /\ r.result = <<>> /\ r.writes = <<>>) => FALSE
        /\ (r.pc \in {"returned", "raised"} /\ r.writes # <<>>) =>
              /\ Last(Statuses(r)) = (IF r.pc = "returned" THEN "completed" ELSE "error")
              /\ \A j \in 1..(Len(r.writes) - 1) : Statuses(r)[j] = "generating"
              /\ RecordOf(r).status # "generating"

C5_Witness ==
    \E p \in Procs :
        /\ run[p].pc = "returned"
        /\ Statuses(run[p]) = <<"generating", "generating", "generating", "completed">>

\* C6: the write that follows the k-th saved image is a generating record
\* with the first k paths, a count of k and k locations and anchors, made
\* before the next image request; while the record of a run is generating its
\* count equals the number of listed images and every listed file exists.
C6_ProgressivePersistence ==
    \A p \in Procs :
        LET r == run[p] IN
        /\ \A k \in 1..Len(r.image_paths) :
              /\ Len(r.writes) >= k + 1
              /\ LET w == r.writes[k + 1] IN
                 /\ w.record.status = "generating"
                 /\ w.record.images = SubSeq(r.image_paths, 1, k)
                 /\ w.record.current_image_count = k
                 /\ Len(w.record.scene_locations) = k
                 /\ Len(w.record.anchor_texts) = k
                 /\ w.requests = r.text_requests + k
        /\ (r.pc \in {"summarize", "scene_loop", "save_completed", "handle_error"}
            /\ HasRecord(r) /\ RecordOf(r).status = "generating") =>
              /\ RecordOf(r).current_image_count = Len(RecordOf(r).images)
              /\ RecordOf(r).images = r.image_paths
              /\ Range(RecordOf(r).images) \subseteq files

C6_Witness ==
    \E p \in Procs :
        /\ run[p].pc = "scene_loop" /\ run[p].i = 1
        /\ RecordOf(run[p]).status = "generating"
        /\ RecordOf(run[p]).current_image_count = 1
        /\ Len(RecordOf(run[p]).images) = 1

\* C7: the cleanup of a forced call on a chapter that has a record (envelope
\* or legacy list) deletes every file the record lists and removes the entry;
\* it runs before the run has written anything or made any external call, and
\* the forced run writes its generating record with the entry already gone;
\* the records and the files of every other chapter are left as they were.
C7_ForceCleanup ==
    [][\A p \in SeqProcs :
          LET r == run[p]
              key == ChapterKey(r.chapter_index)
          IN /\ (r.force_arg /\ r.pc = "cleanup") =>
                   (r.writes = <<>> /\ r.clients = 0 /\ Requests(r) = 0)
             /\ (r.force_arg /\ r.pc = "mark_generating") => key \notin DOMAIN metadata
             /\ (r.force_arg /\ r.pc = "cleanup" /\ run'[p].pc = "mark_generating"
                 /\ key \in DOMAIN metadata) =>
                   /\ Range(metadata[key].images) \cap files' = {}
                   /\ key \notin DOMAIN metadata'
                   /\ DOMAIN metadata' = DOMAIN metadata \ {key}
                   /\ \A k \in DOMAIN metadata' : metadata'[k] = metadata[k]
                   /\ files \ files' \subseteq Range(metadata[key].images)
                   /\ \A path \in files : path.ch # r.chapter_index => path \in files']_vars

C7_Witness ==
    \E p \in SeqProcs :
        /\ run[p].force_arg /\ run[p].pc = "mark_generating"
        /\ run[p].chapter_index = 0
        /\ Len(run[p].old_paths) = 2
        /\ Range(run[p].old_paths) \cap files = {}
        /\ DOMAIN metadata = {ChapterKey(1)}
        /\ StoredPath(1, 1) \in files

\* C8: a write for chapter K leaves the record of every other chapter in the
\* document as it was, adds no key but K, and the record then stored under K
\* is the record that was written.
C8_WriteIsolation ==
    [][\A p \in Procs :
          Len(run'[p].writes) = Len(run[p].writes) + 1 =>
              LET key == ChapterKey(run[p].chapter_index) IN
              /\ DOMAIN metadata' = DOMAIN metadata \cup {key}
              /\ \A k \in DOMAIN metadata \ {key} : metadata'[k] = metadata[k]
              /\ metadata'[key] = Last(run'[p].writes).record]_vars

C8_Witness ==
    \E p \in Procs :
        /\ run[p].pc = "scene_loop" /\ Len(run[p].writes) = 2
        /\ RecordOf(run[p]) = Last(run[p].writes).record
        /\ \E k \in DOMAIN metadata :
              /\ k # ChapterKey(run[p].chapter_index)
              /\ metadata[k].status = "completed" /\ Len(metadata[k].images) = 2

\* A run on a blank text creates no client, issues no request, extracts no
\* scene, saves no image and does not fail.
BlankRunIsQuiet(r) ==
    /\ r.clients = 0 /\ Requests(r) = 0
    /\ r.scenes = <<>> /\ r.image_paths = <<>>
    /\ r.pc \notin {"scene_loop", "handle_error", "raised"}

\* C9 (as stated): for a blank chapter text no client is created and no
\* request is issued, the call returns [] and it writes no file at all.
C9_EmptyChapter ==
    \A p \in Procs :
        WhitespaceOnly(run[p].chapter_text) =>
            /\ BlankRunIsQuiet(run[p])
            /\ run[p].result = <<>>
            /\ run[p].writes = <<>>

\* C9 (amended): for a blank chapter text no client is created, no request is
\* issued and no image file is written; a call that is not answered from the
\* cache returns [] after writing the chapter's record twice, generating and
\* then completed with no images.
C9_EmptyChapterNoImages ==
    \A p \in Procs :
        WhitespaceOnly(run[p].chapter_text) =>
            /\ BlankRunIsQuiet(run[p])
            /\ (run[p].pc = "returned" /\ run[p].writes # <<>>) =>
                  /\ run[p].result = <<>>
                  /\ Statuses(run[p]) = <<"generating", "completed">>
                  /\ Last(run[p].writes).record.images = <<>>
                  /\ RecordOf(run[p]) = Last(run[p].writes).record

C9_Witness ==
    \E p \in Procs :
        /\ run[p].chapter_text = <<" ">> /\ run[p].num_images = 2
        /\ run[p].pc = "returned" /\ Len(run[p].writes) = 2
        /\ run[p].result = <<>>

\* C10: whenever the text service replies for a non-blank text, the scenes
\* returned are exactly num_images descriptors whose scene_number runs 1..N.
C10_PadTruncate ==
    \A p \in Procs :
        (run[p].pc \in {"scene_loop", "save_completed"}
         /\ ~WhitespaceOnly(run[p].chapter_text)) =>
            /\ Len(run[p].scenes) = run[p].num_images
            /\ \A j \in 1..Len(run[p].scenes) : run[p].scenes[j].scene_number = j

\* C11: when the text-generation request raises, no scene is returned, the run
\* makes no image request and saves no image, it goes on to the error handler,
\* and it ends raising with an error record without images as its last write.
C11_ExtractionErrorPropagates ==
    \A p \in Procs :
        LET r == run[p] IN
        (r.exc = ApiErrorMsg /\ r.text_requests = 1) =>
            /\ r.scenes = <<>>
            /\ r.image_requests = 0 /\ r.image_paths = <<>>
            /\ r.pc \in {"handle_error", "raised"}
            /\ r.pc = "raised" =>
                  /\ Last(r.writes).record.status = "error"
                  /\ Last(r.writes).record.images = <<>>
                  /\ RecordOf(r) = Last(r.writes).record

C11_Witness ==
    \E p \in Procs :
        /\ run[p].pc = "raised" /\ run[p].exc = ApiErrorMsg
        /\ run[p].text_requests = 1 /\ run[p].num_images = 2
        /\ Statuses(run[p]) = <<"generating", "error">>

\* The anchor as the exact-match loop compares it, and the paragraphs that
\* contain it.
ComparedAnchor(anchor_text) == LowerText(SplitJoin(anchor_text.text))
Containing(paragraphs, anchor_text) ==
    {i \in 1..Len(paragraphs) : IsInfix(ComparedAnchor(anchor_text), LowerText(paragraphs[i]))}
UsableAnchor(anchor_text) == ~anchor_text.none /\ ~WhitespaceOnly(anchor_text.text)

\* C12 as stated: with a usable anchor and the matcher importable, every
\* paragraph P of a non-empty stream in which the anchor text occurs verbatim
\* is the index returned, whatever the fallback percentage.
C12_VerbatimAnchorWins ==
    (reader.op = "find" /\ UsableAnchor(reader.anchor_text) /\ reader.rapidfuzz) =>
        \A P \in 1..Len(reader.paragraphs) :
            IsInfix(reader.anchor_text.text, reader.paragraphs[P]) => reader.result = P - 1

\* C12 amended: with a usable anchor and the matcher importable, the index
\* returned is that of the first paragraph whose lower-cased text contains the
\* lower-cased anchor with its whitespace runs collapsed, whatever the
\* fallback percentage.
C12_FirstContainingWins ==
    (reader.op = "find" /\ UsableAnchor(reader.anchor_text) /\ reader.rapidfuzz) =>
        \A P \in Containing(reader.paragraphs, reader.anchor_text) :
            (\A Q \in Containing(reader.paragraphs, reader.anchor_text) : P <= Q) =>
                reader.result = P - 1

C12_Witness ==
    /\ reader.op = "find" /\ reader.rapidfuzz
    /\ reader.paragraphs = <<<<"A", " ", "b">>, <<"a">>, <<"A", " ", "b">>>>
    /\ reader.anchor_text = Anchor(<<"b">>)
    /\ reader.fallback_percent = 100
    /\ reader.result = 0

\* The reads that end in the percentage fallback: no usable anchor, no
\* matcher, or no paragraph that contains or resembles the anchor.
TakesFallback(read) ==
    \/ ~UsableAnchor(read.anchor_text)
    \/ ~read.rapidfuzz
    \/ /\ Containing(read.paragraphs, read.anchor_text) = {}
       /\ \A i \in 1..Len(read.paragraphs) :
             /\ read.ratio[read.paragraphs[i]] < SimilarityThreshold
             /\ read.partial[read.paragraphs[i]] < PartialThreshold

\* C13: over L >= 1 paragraphs the fallback index is floor(percent * L / 100)
\* clamped to L - 1 for every percent in 0..100, and whatever the anchor the
\* index returned lies in 0..L-1.
C13_FloorFallbackTotal ==
    (reader.op = "find" /\ reader.paragraphs # <<>>) =>
        LET L == Len(reader.paragraphs)
            floor == (reader.fallback_percent * L) \div 100
        IN /\ reader.result \in 0..(L - 1)
           /\ TakesFallback(reader) =>
                 reader.result = (IF floor < L - 1 THEN floor ELSE L - 1)

\* The image nodes of a document, its paragraphs, and the paragraph each
\* image follows (directly, or after other images).
Images(doc) == SelectSeq(doc, LAMBDA node : node.tag = "img")
WithoutImages(doc) == SelectSeq(doc, LAMBDA node : node.tag # "img")
\* The nodes of a document whatever the way each is written.
Content(doc) == [i \in 1..Len(doc) |-> [doc[i] EXCEPT !.raw = FALSE]]
Precedes(doc, para, j) ==
    \E k \in 1..(j - 1) :
        /\ doc[k] = para
        /\ \A m \in (k + 1)..(j - 1) : doc[m].tag = "img"
\* The index each image resolves to against the paragraphs of the original
\* document.
ResolvedIndex(read, i) ==
    LET paragraphs == FindAll(read.html_content)
        percent == IF i <= Len(read.scene_locations) THEN read.scene_locations[i] ELSE DefaultPercent
        anchored == /\ i <= Len(read.anchor_texts)
                    /\ UsableAnchor(read.anchor_texts[i])
        containing == IF anchored
                      THEN {k \in 1..Len(paragraphs) :
                              IsInfix(ComparedAnchor(read.anchor_texts[i]), LowerText(paragraphs[k].text))}
                      ELSE {}
        floor == (percent * Len(paragraphs)) \div 100
    IN IF containing # {} THEN (CHOOSE k \in containing : \A m \in containing : k <= m) - 1
       ELSE IF anchored /\ read.ratio = FullScores THEN 0
       ELSE IF floor < Len(paragraphs) - 1 THEN floor ELSE Len(paragraphs) - 1

\* C14: over a document with paragraphs, inserting in descending index order
\* leaves every image a following sibling of the paragraph at the index it
\* resolved to in the original paragraph list, keeps the rest of the document
\* in its order and content, and adds exactly len(image_paths) image nodes.
C14_InsertionOrder ==
    (reader.op = "inject" /\ FindAll(reader.html_content) # <<>>) =>
        LET doc == reader.result
            paragraphs == FindAll(reader.html_content)
        IN /\ Content(WithoutImages(doc)) = Content(reader.html_content)
           /\ Len(Images(doc)) = Len(reader.image_paths)
           /\ \A i \in 1..Len(reader.image_paths) :
                 \E j \in 1..Len(doc) :
                     /\ doc[j] = ImgTag(reader.image_paths[i], TRUE)
                     /\ Precedes(doc, paragraphs[ResolvedIndex(reader, i) + 1], j)

C14_Witness ==
    /\ reader.op = "inject"
    /\ Len(FindAll(reader.html_content)) = 3 /\ Heading \in Range(reader.html_content)
    /\ reader.image_paths = <<StoredPath(0, 1), StoredPath(0, 2)>>
    /\ reader.scene_locations = <<0, 100>>
    /\ reader.anchor_texts = NoAnchorTexts
    /\ reader.result[2] = ImgTag(StoredPath(0, 1), TRUE)
    /\ reader.result[Len(reader.result)] = ImgTag(StoredPath(0, 2), TRUE)

\* A read of the chapter's record that no generation step interfered with:
\* no call has been made since the book directory was found as it is.
QuietRead == reader.op = "cached" /\ reader.pc = "done" /\ ncalls = MaxCalls - 1
MissingFile(chapter_data) == Range(chapter_data.images) \ files # {}

ReadAsCompleted(chapter_data) ==
    \/ chapter_data.kind = "list"
    \/ /\ chapter_data.kind = "dict" /\ chapter_data.has_images
       /\ chapter_data.status = "completed"

\* C16 as stated: a legacy list L and the envelope {images: L, status:
\* completed} read the same on every disk: the list L when every file of L
\* exists, None otherwise.
C16_LegacyEquivalence ==
    (QuietRead /\ reader.found /\ ReadAsCompleted(reader.chapter_data)) =>
        reader.result = (IF Range(reader.chapter_data.images) \subseteq files
                         THEN CacheResult(FALSE, reader.chapter_data.images)
                         ELSE CacheNone)

\* C16 amended: both shapes read the same on every disk: the list L when L is
\* not empty and every file of L exists, None otherwise.
C16_LegacyEquivalenceNonEmpty ==
    (QuietRead /\ reader.found /\ ReadAsCompleted(reader.chapter_data)) =>
        reader.result = (IF /\ reader.chapter_data.images # <<>>
                            /\ Range(reader.chapter_data.images) \subseteq files
                         THEN CacheResult(FALSE, reader.chapter_data.images)
                         ELSE CacheNone)

C16_Witness ==
    /\ QuietRead /\ reader.chapter_index = 0
    /\ reader.chapter_data = LegacyList(<<StoredPath(0, 1), StoredPath(0, 2)>>)
    /\ reader.k = 2
    /\ reader.result = CacheResult(FALSE, <<StoredPath(0, 1), StoredPath(0, 2)>>)

\* An envelope with an images list and no status key, whose files all exist.
StatuslessComplete(chapter_data) ==
    /\ chapter_data.kind = "dict" /\ chapter_data.has_images
    /\ chapter_data.status = NoStatus
    /\ chapter_data.images # <<>>
    /\ Range(chapter_data.images) \subseteq files

\* C17: an envelope with an images list and no status key, all of whose files
\* exist, is a hit: get_cached_images returns the list, and a non-forced call
\* for that many images returns it without creating a client.
C17_StatuslessEnvelopeHit ==
    /\ [](QuietRead /\ reader.found /\ StatuslessComplete(reader.chapter_data)
             => reader.result = CacheResult(FALSE, reader.chapter_data.images))
    /\ [][\A p \in SeqProcs :
             LET r == run'[p]
                 key == ChapterKey(r.chapter_index)
             IN (/\ ncalls' = ncalls + 1 /\ ~r.force_arg
                 /\ key \in DOMAIN metadata /\ StatuslessComplete(metadata[key])
                 /\ r.num_images = Len(metadata[key].images))
                => CallHit(r, metadata[key].images)]_vars

\* C20: for a reply that is not JSON, summarize_scenes returns N descriptors
\* numbered 1..N with a null anchor, the generic summary and evenly spaced
\* percentages, which for N = 3 are 25, 50 and 75.
C20_ParseFailureFallback ==
    (/\ reader.op = "summarize" /\ reader.reply.kind = "malformed"
     /\ ~WhitespaceOnly(reader.chapter_text)) =>
        LET scenes == reader.result.scenes
            N == reader.num_scenes
        IN /\ reader.result.exc = NoException
           /\ Len(scenes) = N
           /\ \A i \in 1..Len(scenes) :
                 /\ scenes[i].scene_number = i
                 /\ scenes[i].insert_after_text = Null
                 /\ scenes[i].summary = "An important scene from the chapter"
                 /\ i > 1 => scenes[i].location_percent > scenes[i - 1].location_percent
           /\ N = 3 => [i \in 1..3 |-> scenes[i].location_percent] = <<25, 50, 75>>

\* C18: a get_cached_images call that reads the metadata file between the
\* first generating write of the single generation in flight for that chapter
\* and its completed write returns None; a list is only ever returned from a
\* record read as finished, never from the partial list of a generating one.
C18_NoPartialResult ==
    (reader.op = "cached" /\ reader.pc = "done") =>
        /\ reader.during => reader.result = CacheNone
        /\ reader.result # CacheNone =>
              /\ reader.chapter_data.status # "generating"
              /\ reader.result.paths = reader.chapter_data.images

C18_Witness ==
    /\ reader.op = "cached" /\ reader.pc = "done" /\ reader.during
    /\ reader.chapter_data.status = "generating"
    /\ Len(reader.chapter_data.images) = 1
    /\ reader.existing_paths = reader.chapter_data.images
    /\ reader.result = CacheNone
    /\ \E p \in SeqProcs :
          /\ run[p].chapter_index = reader.chapter_index
          /\ run[p].num_images = 2 /\ run[p].pc = "scene_loop"

\* C19: a step of get_cached_images, of the injection (which resolves the
\* insertion points) or a generate call answered from the cache leaves the
\* metadata document and the image files as they are.
C19_ReadsAreSideEffectFree ==
    [][/\ reader' # reader => (metadata' = metadata /\ files' = files)
       /\ \A p \in SeqProcs :
             (ncalls' = ncalls + 1 /\ run'[p].pc = "returned")
                => (metadata' = metadata /\ files' = files)]_vars

C19_Witness ==
    /\ reader.op = "inject"
    /\ reader.image_paths = <<StoredPath(0, 1), StoredPath(0, 2)>>
    /\ Len(FindAll(reader.html_content)) = 2
    /\ Len(reader.result) = Len(reader.html_content) + 2
    /\ \E p \in SeqProcs : CallHit(run[p], reader.image_paths)
    /\ metadata[ChapterKey(0)].images = reader.image_paths
    /\ Range(reader.image_paths) \subseteq files

\* C21: save_image writes a file only for a payload that starts with the PNG
\* signature and has at least 1000 bytes; for any other payload it raises,
\* writes no file and creates no directory; so every file it has written
\* starts with the signature and has at least 1000 bytes.
C21_ValidatedBeforePersisted ==
    reader.op = "save" =>
        IF reader.image_bytes.png /\ reader.image_bytes.size >= 1000
        THEN /\ reader.exc = NoException /\ reader.path \in files
             /\ reader.written.png /\ reader.written.size >= 1000
        ELSE /\ reader.exc # NoException
             /\ files = {} /\ ~reader.makedirs

\* C22: every image node of an injected document, after a paragraph or
\* appended to a document without paragraphs, has the alt description and the
\* style attribute.
C22_AltAndStyle ==
    reader.op = "inject" =>
        \A j \in 1..Len(reader.result) :
            reader.result[j].tag = "img" =>
                reader.result[j].alt /\ reader.result[j].style

\* C23: for a document without paragraphs and N >= 1 images the result is the
\* document's content followed by the N image nodes in input order, and the
\* resolver is not called.
C23_EmptyParagraphStream ==
    (/\ reader.op = "inject" /\ reader.image_paths # <<>>
     /\ \A j \in 1..Len(reader.html_content) : reader.html_content[j].tag # "p") =>
        LET doc == reader.result
            old == Len(reader.html_content)
        IN /\ Len(doc) = old + Len(reader.image_paths)
           /\ Content(SubSeq(doc, 1, old)) = Content(reader.html_content)
           /\ \A i \in 1..Len(reader.image_paths) :
                 doc[old + i].tag = "img" /\ doc[old + i].src = <<reader.image_paths[i]>>
           /\ reader.resolver_calls = 0

C23_Witness ==
    /\ reader.op = "inject" /\ reader.html_content = <<RawBreak>>
    /\ reader.image_paths = <<StoredPath(0, 2), StoredPath(0, 1)>>
    /\ Len(reader.result) = 3
    /\ reader.result[2].src = <<StoredPath(0, 2)>> /\ reader.result[3].src = <<StoredPath(0, 1)>>
    /\ reader.anchor_texts # NoAnchorTexts

\* C24: with an empty image list the result is the input itself, node for
\* node and written as it was, with or without paragraphs.
C24_IdentityOnNoImages ==
    (reader.op = "inject" /\ reader.image_paths = <<>>) =>
        reader.result = reader.html_content

C24_Witness ==
    /\ reader.op = "inject" /\ reader.image_paths = <<>>
    /\ reader.html_content = <<Paragraph(1, <<"a">>), RawBreak>>
    /\ reader.result = <<Paragraph(1, <<"a">>), RawBreak>>
    /\ reader.scene_locations # <<>>

\* The place of the image of scene i (1-based) in an injected document whose
\* image paths are all different.
ImagePlace(read, i) ==
    CHOOSE j \in 1..Len(read.result) :
        read.result[j].tag = "img" /\ read.result[j].src = <<read.image_paths[i]>>
DistinctPaths(read) ==
    \A i, j \in 1..Len(read.image_paths) :
        i # j => read.image_paths[i] # read.image_paths[j]

\* C29: in the injected document the images stand in the order of their
\* resolved paragraph indices, and images resolved to the same paragraph stand
\* in scene order, the image of scene i before that of scene j when i < j.
C29_SceneOrder ==
    (/\ reader.op = "inject" /\ FindAll(reader.html_content) # <<>>
     /\ DistinctPaths(reader)) =>
        \A i, j \in 1..Len(reader.image_paths) :
            \/ ResolvedIndex(reader, i) > ResolvedIndex(reader, j)
            \/ ResolvedIndex(reader, i) = ResolvedIndex(reader, j) /\ i >= j
            \/ ImagePlace(reader, i) < ImagePlace(reader, j)

\* C25: every location_percent of a descriptor that summarize_scenes returns,
\* and every value of a stored scene_locations list, lies in 0..100, whether
\* it came with the scene, was filled in as a default, or belongs to a padded
\* placeholder or a parse-failure fallback.
C25_PercentRange ==
    /\ reader.op = "summarize" =>
          \A j \in 1..Len(reader.result.scenes) :
              reader.result.scenes[j].location_percent \in 0..100
    /\ \A k \in DOMAIN metadata :
          \A j \in 1..Len(metadata[k].scene_locations) :
              metadata[k].scene_locations[j] \in 0..100

\* Characters a sanitized title may hold, and the titles of which nothing
\* remains: no letter, digit or hyphen in them.
SafeTitleChars == AlnumChars \cup {"-", "_"}
NothingRemains(title) == \A j \in 1..Len(title) : title[j] \in {" ", "_", "!", "/"}

\* C26: with the default max_length the sanitized title is not empty, has at
\* most max_length characters, all of them alphanumeric, '-' or '_', neither
\* starts nor ends with an underscore, has no two adjacent underscores, is
\* 'chapter' when nothing remains of the title, and sanitizes to itself.
C26_SanitizedTitle ==
    reader.op = "sanitize" =>
        LET t == reader.result IN
        /\ t # <<>> /\ Len(t) <= 50
        /\ \A j \in 1..Len(t) : t[j] \in SafeTitleChars
        /\ t[1] # "_" /\ t[Len(t)] # "_"
        /\ \A j \in 1..(Len(t) - 1) : ~(t[j] = "_" /\ t[j + 1] = "_")
        /\ NothingRemains(reader.title) => t = <<"c", "h", "a", "p", "t", "e", "r">>
        /\ reader.again = t

C26_Witness ==
    /\ reader.op = "sanitize"
    /\ Len(reader.title) = 52 /\ reader.title[50] = " " /\ reader.title[51] = "/"
    /\ reader.title[52] = "a"
    /\ Len(reader.result) = 49 /\ reader.again = reader.result

\* The chapter is a cache hit for the list: its record is finished, lists
\* these paths, and every listed file is on disk.
HitFor(chapter_index, paths) ==
    /\ paths # <<>>
    /\ ChapterKey(chapter_index) \in DOMAIN metadata
    /\ \/ metadata[ChapterKey(chapter_index)].kind = "list"
       \/ metadata[ChapterKey(chapter_index)].status = "completed"
    /\ metadata[ChapterKey(chapter_index)].images = paths
    /\ Range(paths) \subseteq files

\* A lookup of the chapter has returned the list: the chapter was a cache hit
\* when its record and its files were looked at.
WasHit(chapter_index, paths) ==
    /\ reader.op = "cached" /\ reader.pc = "done"
    /\ reader.chapter_index = chapter_index
    /\ ~reader.result.none /\ reader.result.paths = paths

\* C30: when the chapter is a cache hit before a call that regenerates it
\* (forced, or forced by a count mismatch) and the call ends in error, the
\* chapter's finished record and its files are still there and the chapter is
\* still a cache hit for the same list.
C30_FailedRegenerationKeepsCache ==
    \A p \in SeqProcs :
        (/\ run[p].pc = "raised" /\ run[p].force_regenerate
         /\ reader.op = "cached"
         /\ WasHit(run[p].chapter_index, reader.result.paths)
         /\ reader.result.paths # <<>>)
            => HitFor(run[p].chapter_index, reader.result.paths)

\* Both runs have ended, each by returning or by raising.
BothEnded == \A p \in Procs : run[p].pc \in {"returned", "raised"}

\* C28: when the runs of two different chapters of one book are in flight at
\* once, the metadata document holds, after both have ended, the last record
\* that each of them wrote: no write of one run removes or reverts the record
\* of the other chapter.
C28_NoLostUpdate ==
    (BothEnded /\ run[1].chapter_index # run[2].chapter_index) =>
        \A p \in Procs :
            /\ HasRecord(run[p])
            /\ RecordOf(run[p]) = Last(run[p].writes).record

\* Two runs of the same chapter, both started.
SameChapter(p, q) ==
    /\ p # q
    /\ run[p].pc # "idle" /\ run[q].pc # "idle"
    /\ run[p].chapter_index = run[q].chapter_index

\* The other run has written the chapter's record since r loaded the file.
WrittenSinceLoad(r) ==
    /\ ~r.loaded.none
    /\ HasRecord(r)
    /\ \/ ChapterKey(r.chapter_index) \notin DOMAIN r.loaded.doc
       \/ r.loaded.doc[ChapterKey(r.chapter_index)] # RecordOf(r)

\* C27: two concurrent runs of the same chapter are not isolated.  A run that
\* writes its record replaces whatever the other run has written since the
\* file was loaded: after the write the chapter's record is the writer's own,
\* so the record of a run that has ended can be overwritten by the other's.
C27_SameChapterOverwrite ==
    [][\A p, q \in Procs :
          (/\ SameChapter(p, q)
           /\ run[p].pc \in SavePoints
           /\ WrittenSinceLoad(run[p])
           /\ run'[p].loaded.none)
              => /\ ChapterKey(run[p].chapter_index) \in DOMAIN metadata'
                 /\ metadata'[ChapterKey(run[p].chapter_index)]
                        = Last(run'[p].writes).record]_vars

\* Both runs of one chapter have ended, one of them by returning its images,
\* and the persisted record is the error record of the other.
C27_Witness ==
    /\ BothEnded
    /\ SameChapter(1, 2)
    /\ \E p \in Procs :
          /\ run[p].pc = "returned" /\ run[p].result # <<>>
          /\ Last(run[p].writes).record.status = "completed"
          /\ HasRecord(run[p])
          /\ RecordOf(run[p]).status = "error"

\* The message ends with the given phrases.
EndsWith(msg, phrases) ==
    /\ Len(msg) >= Len(phrases)
    /\ SubSeq(msg, Len(msg) - Len(phrases) + 1, Len(msg)) = phrases

\* C38: the message of an error record is determined by the category of the
\* failure: no parts in the image response gives the safety message, parts
\* without image data give the no-data message, any other failure in scene k
\* gives "Failed to generate image for scene k: ...", and a failure of the
\* scene extraction gives "Generation error: ...".
C38_ErrorClassification ==
    \A p \in Procs :
        run[p].pc = "raised" =>
            LET r == run[p]
                message == Last(r.writes).record.error
            IN IF r.scenes = <<>>
               THEN message = <<"Generation error:">> \o r.exc
               ELSE IF EndsWith(r.exc, <<NoImageDataPhrase, SafetyPhrase>>)
               THEN message = SafetyUserError
               ELSE IF EndsWith(r.exc, <<NoImageDataPhrase>>)
               THEN message = NoDataUserError
               ELSE /\ Len(message) >= 2
                    /\ message[1] = FailedScenePhrase
                    /\ message[2] = ToString(r.i + 1)

\* The step is the entry of a non-forced call of p.
NonForcedCall(p) ==
    /\ ncalls' = ncalls + 1
    /\ run'[p] # run[p]
    /\ ~run'[p].force_arg

\* The chapter has a record that lists a number of images other than n.
RecordOfOtherCount(chapter_index, n) ==
    /\ ChapterKey(chapter_index) \in DOMAIN metadata
    /\ Len(metadata[ChapterKey(chapter_index)].images) # n

\* The cleanup step of a non-forced run removes the files of the old record
\* and its entry, before the run has written anything.
ImplicitCleanup(p) ==
    (/\ ~run[p].force_arg /\ run[p].pc = "cleanup"
     /\ run'[p].pc = "mark_generating")
        => /\ run[p].writes = <<>>
           /\ ChapterKey(run[p].chapter_index) \in DOMAIN metadata
           /\ ChapterKey(run[p].chapter_index) \notin DOMAIN metadata'
           /\ Range(metadata[ChapterKey(run[p].chapter_index)].images) \cap files' = {}

\* C31: a non-forced call that finds a record of the chapter, of any status
\* and with or without its files, whose image count differs from num_images
\* behaves like a forced call: the files of the old record are deleted and
\* the entry is removed before the generating record is written.
C31_ImplicitForceAnyRecord ==
    [][\A p \in SeqProcs :
          /\ (NonForcedCall(p)
              /\ RecordOfOtherCount(run'[p].chapter_index, run'[p].num_images))
                 => run'[p].pc = "cleanup"
          /\ ImplicitCleanup(p)]_vars

\* C31, amended: the call behaves like a forced call exactly when the chapter
\* is a cache hit (a finished record with a non-empty list whose files all
\* exist) for a list of another length; a record that is no cache hit is
\* overwritten by the generating record without any cleanup.
C31_ImplicitForceOnHit ==
    [][\A p \in SeqProcs :
          /\ NonForcedCall(p) =>
                (run'[p].pc = "cleanup" <=>
                    /\ RecordOfOtherCount(run'[p].chapter_index, run'[p].num_images)
                    /\ HitFor(run'[p].chapter_index,
                              metadata[ChapterKey(run'[p].chapter_index)].images))
          /\ ImplicitCleanup(p)]_vars

C31_Witness ==
    \E p \in SeqProcs :
        /\ ~run[p].force_arg /\ run[p].force_regenerate
        /\ run[p].pc = "mark_generating"
        /\ run[p].num_images = 1
        /\ Len(run[p].old_paths) = 2
        /\ Range(run[p].old_paths) \cap files = {}
        /\ ChapterKey(run[p].chapter_index) \notin DOMAIN metadata

\* The 0-based index of the first paragraph whose score is the largest.
FirstMaximum(paragraphs, score) ==
    (CHOOSE i \in 1..Len(paragraphs) :
        /\ \A j \in 1..Len(paragraphs) : score[paragraphs[j]] <= score[paragraphs[i]]
        /\ \A j \in 1..(i - 1) : score[paragraphs[j]] < score[paragraphs[i]]) - 1

\* Some paragraph has a score of at least the threshold.
Reaches(paragraphs, score, threshold) ==
    \E i \in 1..Len(paragraphs) : score[paragraphs[i]] >= threshold

\* The index of tiers 2 to 5 for a usable anchor.
MatchedIndex(read) ==
    IF Containing(read.paragraphs, read.anchor_text) # {}
    THEN (CHOOSE P \in Containing(read.paragraphs, read.anchor_text) :
             \A Q \in Containing(read.paragraphs, read.anchor_text) : P <= Q) - 1
    ELSE IF Reaches(read.paragraphs, read.ratio, SimilarityThreshold)
    THEN FirstMaximum(read.paragraphs, read.ratio)
    ELSE IF Reaches(read.paragraphs, read.partial, PartialThreshold)
    THEN FirstMaximum(read.paragraphs, read.partial)
    ELSE FallbackIndex(read.fallback_percent, Len(read.paragraphs))

\* C32: the tiers of find_insertion_point in strict precedence: an absent or
\* blank anchor gives the percentage index; otherwise the first paragraph
\* that contains the anchor; otherwise the paragraph of the largest full
\* score if it is at least 80; otherwise the paragraph of the largest partial
\* score if it is at least 85; otherwise the percentage index; whatever the
\* scores of later tiers would be.
C32_TierPrecedence ==
    reader.op = "find" =>
        reader.result =
            IF ~UsableAnchor(reader.anchor_text)
            THEN FallbackIndex(reader.fallback_percent, Len(reader.paragraphs))
            ELSE MatchedIndex(reader)

\* C32, amended: between the blank-anchor tier and the containment tier
\* stands the import of the matcher; when it fails the percentage index is
\* returned, also for an anchor that a paragraph contains.
C32_TierPrecedenceWithImport ==
    reader.op = "find" =>
        reader.result =
            IF ~UsableAnchor(reader.anchor_text) \/ ~reader.rapidfuzz
            THEN FallbackIndex(reader.fallback_percent, Len(reader.paragraphs))
            ELSE MatchedIndex(reader)

\* No paragraph contains the anchor, the first paragraph has the largest
\* partial score and the second the largest full score, both above their
\* thresholds: the full score decides.
C32_Witness ==
    /\ reader.op = "find" /\ reader.rapidfuzz
    /\ reader.paragraphs = <<<<"a">>, <<"A", " ", "b">>>>
    /\ reader.anchor_text = Anchor(<<"c">>)
    /\ reader.ratio[<<"a">>] = 0 /\ reader.ratio[<<"A", " ", "b">>] = SimilarityThreshold
    /\ reader.partial[<<"a">>] = PartialThreshold /\ reader.partial[<<"A", " ", "b">>] = 0
    /\ reader.fallback_percent = 0
    /\ reader.result = 1

\* The anchor stored in a record, as the characters the resolver compares.
StoredAnchor(text) == IF text = "a" THEN Anchor(<<"a">>) ELSE NoAnchor

\* The first paragraph of the document that contains the anchor.
FirstContaining(doc, anchor_text) ==
    LET paragraphs == FindAll(doc)
        containing == {k \in 1..Len(paragraphs) :
                          IsInfix(ComparedAnchor(anchor_text), LowerText(paragraphs[k].text))}
    IN paragraphs[CHOOSE k \in containing : \A m \in containing : k <= m]

\* C34: when a chapter with a completed record is read, every image whose
\* stored anchor occurs verbatim in a paragraph is rendered right after the
\* first such paragraph, the stored percentage being the fallback only.
C34_AnchorsUsedOnRead ==
    (/\ reader.op = "inject" /\ reader.image_paths # <<>>
     /\ \A p \in Procs : ~InFlight(p)) =>
        LET key == ChapterKey(reader.image_paths[1].ch) IN
        (/\ key \in DOMAIN metadata
         /\ metadata[key].kind = "dict" /\ metadata[key].status = "completed"
         /\ metadata[key].images = reader.image_paths
         /\ Len(metadata[key].anchor_texts) = Len(reader.image_paths)) =>
            \A i \in 1..Len(reader.image_paths) :
                LET anchor_text == StoredAnchor(metadata[key].anchor_texts[i]) IN
                (/\ UsableAnchor(anchor_text)
                 /\ \E k \in 1..Len(FindAll(reader.html_content)) :
                       IsInfix(ComparedAnchor(anchor_text),
                               LowerText(FindAll(reader.html_content)[k].text))) =>
                    Precedes(reader.result,
                             FirstContaining(reader.html_content, anchor_text),
                             ImagePlace(reader, i))

\* No run has been started for the chapter.
Untouched(chapter_index) ==
    \A p \in Procs : run[p].pc = "idle" \/ run[p].chapter_index # chapter_index

\* C35: a lookup that reads the metadata file while a write for another
\* chapter is in progress sees the old or the new document, never an empty
\* or partial one: a chapter that is a cache hit, and that no run touches, is
\* never reported as a miss.
C35_AtomicForReaders ==
    (/\ reader.op = "cached" /\ reader.pc = "done"
     /\ Untouched(reader.chapter_index)
     /\ ChapterKey(reader.chapter_index) \in DOMAIN metadata
     /\ HitFor(reader.chapter_index, metadata[ChapterKey(reader.chapter_index)].images))
        => /\ ~reader.result.none
           /\ reader.result.paths = metadata[ChapterKey(reader.chapter_index)].images

\* C36: in every completed record the image paths are pairwise distinct and
\* name as many files on disk as the record lists images, whatever scene
\* numbers the text service returned.
C36_DistinctAssets ==
    \A p \in Procs :
        (run[p].pc = "returned" /\ run[p].writes # <<>>
         /\ HasRecord(run[p]) /\ RecordOf(run[p]) = Last(run[p].writes).record) =>
            LET images == RecordOf(run[p]).images IN
            /\ \A i, j \in 1..Len(images) : i # j => images[i] # images[j]
            /\ Cardinality(Range(images) \cap files) = Len(images)

\* C37: after a generate call has ended, with a completed or with an error
\* record, every image file on disk for the chapter is listed in the
\* chapter's record.
C37_NoOrphanedAssets ==
    \A p \in Procs :
        (run[p].pc \in {"returned", "raised"} /\ run[p].writes # <<>>
         /\ HasRecord(run[p]) /\ RecordOf(run[p]) = Last(run[p].writes).record) =>
            \A path \in files :
                path.ch = run[p].chapter_index => path \in Range(RecordOf(run[p]).images)

\* The run failed in a request to a service or on the payload it returned.
ExternalFailure(r) ==
    r.pc = "raised" /\
        (r.exc \in {NoApiKeyMsg, ApiErrorMsg} \/ Contains(r.exc, FailedScenePhrase))

\* C33: the generating record that an abandoned run left is never reported
\* as a cache hit, whatever files exist; the next call for the chapter,
\* forced or not, regenerates, and when none of its external calls fails the
\* chapter ends with a completed record that is a cache hit.  The last part
\* is stated for a chapter with text and at least one requested image, the
\* case in which a completed record can list an image at all.
C33_RecoveryFromAbandonedRun ==
    \A p \in SeqProcs :
        LET r == run[p] IN
        /\ r.pc = "idle" => get_cached_images(metadata, files, 0) = CacheNone
        /\ (r.pc = "returned" /\ r.chapter_index = 0) => r.writes # <<>>
        /\ (r.pc \in {"returned", "raised"} /\ r.chapter_index = 0
            /\ r.num_images >= 1 /\ ~IsBlankText(r.chapter_text)
            /\ ~ExternalFailure(r)) =>
              /\ HasRecord(r)
              /\ RecordOf(r).status = "completed"
              /\ Truthy(get_cached_images(metadata, files, 0))

====
